---- MODULE Spec2Model ----
(***************************************************************************)
(* Word-cloud layout engine of the cultural-events front end:              *)
(* spiralLayout.ts (collision kernel, spiral placement, validation,        *)
(* sizing) and forceLayout.ts (force relaxation, hybrid driver, strategy   *)
(* selector).                                                              *)
(*                                                                         *)
(* Numbers.  The code computes in IEEE doubles and so does the model       *)
(* (IEEE doubles, below): every length (x, y, width, height, fontSize,     *)
(* minSpacing, radius, angle, the container's size and centre) is a        *)
(* double, and each sum, difference, product, quotient and square root     *)
(* rounds as the code's does, in the code's order.  Math.cos and Math.sin  *)
(* are approximated by the engine; they are tables of the engine's results *)
(* at the angles the spiral visits, one pair of tables for each of the two *)
(* implementations V8 is built with.  Item values, importances and list    *)
(* lengths are whole numbers and kept as such.                             *)
(***************************************************************************)
EXTENDS Integers, Sequences, FiniteSets, TLC

VARIABLES
  items,          \* WordItem[] handed to the layout functions
  container,      \* ContainerBounds
  minSpacing,     \* minSpacing argument
  maxIterations,  \* maxIterations argument of forceDirectedLayout
  placed,         \* PlacedItem[] returned by the last layout call
  algorithm,      \* which function produced placed: "none" before any call
  iterations,     \* iterations the last force simulation ran
  randomSeed,     \* which outcome of Math.random the last layout call
                  \* was given, 0 before any
  mathLibrary,    \* which implementation of Math.cos and Math.sin the
                  \* engine runs
  itemCount,      \* selectOptimalAlgorithm argument
  containerArea,  \* selectOptimalAlgorithm argument
  selected,       \* result of selectOptimalAlgorithm, "none" before the call
  rawItems,       \* calculateFontSizes argument items
  fontSizeRange,  \* calculateFontSizes argument fontSizeRange
  minTapTarget,   \* calculateFontSizes argument minTapTarget
  sized,          \* WordItem[] returned by calculateFontSizes, <<>> before
  boxA,           \* hasCollision argument, a Bounds of doubles
  boxB,           \* hasCollision argument, a Bounds of doubles
  kernelSpacing,  \* hasCollision argument minSpacing, a double
  collisionAB,    \* hasCollision(boxA, boxB, kernelSpacing) as "true" or
                  \* "false", "none" before the call
  collisionBA,    \* hasCollision(boxB, boxA, kernelSpacing), likewise
  algorithmProp,  \* NonOverlappingWordCloud prop algorithm, "none" while no
                  \* component is mounted
  selectedAlgorithm, \* the component's memo selectedAlgorithm
  containerRef,   \* containerRef.current: "attached" or "null"
  containerRect,  \* << width, height >> (px) of the container element
  placedItemsState, \* component state placedItems
  isLayoutComplete, \* component state isLayoutComplete
  layoutError,    \* component state layoutError: "null", or which message
                  \* it holds: "incomplete", "thrown" for the message of
                  \* a thrown error, "" for an empty message
  layoutTimer,    \* TRUE while the layout effect's 10 ms timer is pending
  resizeTimers,   \* number of pending 150 ms timers of handleResize
  inertResizeTimers, \* how many of them were started while the item
                  \* list was empty
  resizeListener, \* TRUE while handleResize listens to window resize
  itemChanges,    \* how often the parent handed over new props
  analytics,      \* window.analytics: "absent", "ok", "throws" when its
                  \* track method throws an error with a message, or
                  \* "throwsEmpty" when it throws new Error()
  clock,          \* time (ms) of the debounce scenario
  timers,         \* pending timers of the debounced function, each
                  \* [id, due]: the callback runs at due or later
  timeoutId,      \* the closure variable timeoutId, 0 while undefined
  timerIds,       \* number of timers created so far
  callTimes,      \* times of the calls of the debounced function
  runTimes,       \* times at which layoutFunction ran
  validations,    \* results of the validateNoOverlaps calls made so far
  searchState,    \* where findNonCollidingPosition stands: "idle", "loop"
                  \* at the while condition, "found" or "null" once returned
  searchStep,     \* passes of the loop body completed
  searchAngle,    \* the local angle
  searchRadius,   \* the local radius
  searchPosition, \* the position returned, NoPosition before and for null
  simPhase,       \* where forceDirectedLayout's loop stands: "idle",
                  \* "loop" at the while condition, "done" after it
  simulation,     \* forceItems, iteration and converged of that loop
  forces,         \* the array returned by calculateRepulsionForces, << >>
                  \* before the call
  filters,        \* quiz store filters; a filter is << >> for null and
                  \* << v >> for the value v
  currentStep,    \* quiz store currentStep
  isComplete,     \* quiz store isComplete
  quizCall,       \* the last call made on the quiz store and its argument
  stepAccess      \* what checkStepAccess returned last

vars == << items, container, minSpacing, maxIterations, placed, algorithm,
           iterations, randomSeed, mathLibrary, itemCount, containerArea,
           selected, rawItems,
           fontSizeRange, minTapTarget, sized, boxA, boxB, kernelSpacing,
           collisionAB, collisionBA, algorithmProp, selectedAlgorithm,
           containerRef, containerRect, placedItemsState, isLayoutComplete,
           layoutError, layoutTimer, resizeTimers, inertResizeTimers,
           resizeListener, itemChanges, analytics, clock, timers,
           timeoutId, timerIds, callTimes, runTimes, validations,
           searchState, searchStep, searchAngle, searchRadius, searchPosition,
           simPhase,
           simulation, forces, filters, currentStep, isComplete, quizCall,
           stepAccess >>

layoutVars == << items, container, minSpacing, maxIterations, placed,
                 algorithm, iterations, randomSeed, mathLibrary >>

selectVars == << itemCount, containerArea, selected >>

sizeVars == << rawItems, fontSizeRange, minTapTarget, sized >>

kernelVars == << boxA, boxB, kernelSpacing, collisionAB, collisionBA >>

componentVars == << algorithmProp, selectedAlgorithm, containerRef,
                    containerRect, placedItemsState, isLayoutComplete,
                    layoutError, layoutTimer, resizeTimers,
                    inertResizeTimers, resizeListener, itemChanges,
                    analytics >>

debounceVars == << clock, timers, timeoutId, timerIds, callTimes, runTimes >>

\* the variables of the component, of the debounced calculator and of the
\* validation calls
searchVars == << searchState, searchStep, searchAngle, searchRadius,
                 searchPosition >>

simVars == << simPhase, simulation, forces >>

quizVars == << filters, currentStep, isComplete, quizCall, stepAccess >>

\* the variables of the loops taken step by step and of the quiz store
tailVars == << searchVars, simVars, quizVars >>

lateVars == << componentVars, debounceVars, validations, tailVars >>

\* the variables of the stages modelled after the layout functions
restVars == << kernelVars, lateVars >>

----------------------------------------------------------------------------
(* Bounds of the model *)

\* longest item list handed to a layout function
MaxItems == 3

\* largest maxIterations argument passed explicitly to forceDirectedLayout
MaxIterArg == 2

\* number of outcomes of the random jitter sequence that are explored
MaxSeed == 2

\* longest item list handed to hybridLayout
MaxHybridItems == 2

\* largest itemCount handed to selectOptimalAlgorithm
MaxItemCount == 61

\* longest item list handed to calculateFontSizes
MaxRawItems == 3

----------------------------------------------------------------------------
(* Whole numbers and arrays *)

\* the element of a set of one element.  The({ e : x \in { v } }) is e with
\* x the value of v, which is computed once: const x = v; e
The(S) == CHOOSE r \in S : TRUE

\* the array with elements f[1], ..., f[n], every element computed once
Array(f) == The({ SubSeq(g, 1, Len(g)) : g \in { f } })

Abs(a) == IF a < 0 THEN -a ELSE a

Max(a, b) == IF a >= b THEN a ELSE b

Min(a, b) == IF a <= b THEN a ELSE b

Sgn(a) == IF a < 0 THEN -1 ELSE 1

\* a / b rounded to the nearest integer, b > 0
DivRound(a, b) == Sgn(a) * ((2 * Abs(a) + b) \div (2 * b))

RECURSIVE IsqrtIter(_, _, _)
IsqrtIter(n, lo, hi) ==
  IF lo >= hi THEN lo
  ELSE The({ IF mid * mid <= n THEN IsqrtIter(n, mid, hi)
             ELSE IsqrtIter(n, lo, mid - 1)
           : mid \in { (lo + hi + 1) \div 2 } })

\* floor of the square root of n, 0 <= n < 2^31
Isqrt(n) == IsqrtIter(n, 0, 46340)

----------------------------------------------------------------------------
(* IEEE doubles.  The model computes in them as the code does: sums,      *)
(* differences, products, quotients and square roots are the exact results *)
(* rounded to 53 bits, ties to the even neighbour.  A double is the record *)
(* [neg, exp, hi, lo] of value (-1)^neg * (hi * Limb + lo) * 2^exp with    *)
(* 2^27 <= hi < 2^28 and lo a multiple of 8 below Limb: 53 bits and three  *)
(* zeros.  Zero has hi = lo = exp = 0 and neg = FALSE.  Within the         *)
(* iteration budgets of the model nothing overflows to Infinity or drops   *)
(* below the normal range, so neither is represented.                      *)

Limb == 2 ^ 28

HalfLimb == 2 ^ 27

\* the limbs are multiplied in halves
Digit == 2 ^ 14

HalfDigit == 2 ^ 13

Double(neg, exp, hi, lo) == [neg |-> neg, exp |-> exp, hi |-> hi, lo |-> lo]

DoubleZero == Double(FALSE, 0, 0, 0)

\* lo with its lowest bit set when bits were lost below it
Sticky(lo, lost) == IF lost /\ lo % 2 = 0 THEN lo + 1 ELSE lo

\* the double nearest to (hi * Limb + lo) * 2^exp, 2^27 <= hi < 2^28; the
\* three low bits of lo are the guard, round and sticky bits
RoundNearestEven(neg, exp, hi, lo) ==
  The({ LET r == l % 8
            rounded == IF r > 4 \/ (r = 4 /\ (l \div 8) % 2 = 1)
                       THEN l - r + 8 ELSE l - r
        IN  IF rounded < Limb THEN Double(neg, exp, h, rounded)
            ELSE IF h + 1 < Limb THEN Double(neg, exp, h + 1, 0)
            ELSE Double(neg, exp + 1, HalfLimb, 0)
      : h \in { hi },
        l \in { lo } })

\* (hi * Limb + lo) shifted right by d bits, the bits shifted out kept as
\* the sticky bit
ShiftRightSticky(hi, lo, d) ==
  IF d = 0 THEN [hi |-> hi, lo |-> lo]
  ELSE IF d < 28
       THEN [hi |-> hi \div (2 ^ d),
             lo |-> Sticky(lo \div (2 ^ d) + (hi % (2 ^ d)) * (2 ^ (28 - d)),
                           lo % (2 ^ d) # 0)]
  ELSE IF d < 57
       THEN [hi |-> 0,
             lo |-> Sticky(hi \div (2 ^ (d - 28)),
                           hi % (2 ^ (d - 28)) # 0 \/ lo # 0)]
  ELSE [hi |-> 0, lo |-> 1]

\* the number of bits by which h, 0 < h < 2^28, falls short of 28 bits
LeadingZeros(h) ==
  IF h >= HalfLimb THEN 0
  ELSE IF h >= 2 ^ 26 THEN 1
  ELSE IF h >= 2 ^ 25 THEN 2
  ELSE IF h >= 2 ^ 24 THEN 3
  ELSE IF h >= 2 ^ 20
       THEN (IF h >= 2 ^ 22 THEN (IF h >= 2 ^ 23 THEN 4 ELSE 5)
             ELSE IF h >= 2 ^ 21 THEN 6 ELSE 7)
  ELSE IF h >= 2 ^ 16
       THEN (IF h >= 2 ^ 18 THEN (IF h >= 2 ^ 19 THEN 8 ELSE 9)
             ELSE IF h >= 2 ^ 17 THEN 10 ELSE 11)
  ELSE IF h >= 2 ^ 12
       THEN (IF h >= 2 ^ 14 THEN (IF h >= 2 ^ 15 THEN 12 ELSE 13)
             ELSE IF h >= 2 ^ 13 THEN 14 ELSE 15)
  ELSE IF h >= 2 ^ 8
       THEN (IF h >= 2 ^ 10 THEN (IF h >= 2 ^ 11 THEN 16 ELSE 17)
             ELSE IF h >= 2 ^ 9 THEN 18 ELSE 19)
  ELSE IF h >= 2 ^ 4
       THEN (IF h >= 2 ^ 6 THEN (IF h >= 2 ^ 7 THEN 20 ELSE 21)
             ELSE IF h >= 2 ^ 5 THEN 22 ELSE 23)
  ELSE IF h >= 4 THEN (IF h >= 8 THEN 24 ELSE 25)
  ELSE IF h >= 2 THEN 26 ELSE 27

\* the double nearest to (hi * Limb + lo) * 2^exp, 0 <= hi < 2^28
NormalizeLeft(neg, exp, hi, lo) ==
  The({ IF h = 0 /\ l = 0 THEN DoubleZero
        ELSE IF h = 0
             THEN The({ Double(neg, exp - 28 - k, l * (2 ^ k), 0)
                      : k \in { LeadingZeros(l) } })
        ELSE IF h >= HalfLimb THEN RoundNearestEven(neg, exp, h, l)
        ELSE The({ RoundNearestEven(neg, exp - k,
                                    h * (2 ^ k) + l \div (2 ^ (28 - k)),
                                    (l % (2 ^ (28 - k))) * (2 ^ k))
                 : k \in { LeadingZeros(h) } })
      : h \in { hi },
        l \in { lo } })

\* |a| < |b|
MagLess(a, b) ==
  IF a.hi = 0 THEN b.hi # 0
  ELSE IF b.hi = 0 THEN FALSE
  ELSE IF a.exp # b.exp THEN a.exp < b.exp
  ELSE a.hi < b.hi \/ (a.hi = b.hi /\ a.lo < b.lo)

\* |a| + |b| with the sign neg, for |a| >= |b| > 0
MagAdd(neg, a, b) ==
  The({ LET lo == a.lo + s.lo
            hi == a.hi + s.hi + lo \div Limb
        IN  IF hi >= Limb
            THEN RoundNearestEven(neg, a.exp + 1, hi \div 2,
                                  Sticky((lo % Limb) \div 2
                                           + (hi % 2) * HalfLimb,
                                         lo % 2 = 1))
            ELSE RoundNearestEven(neg, a.exp, hi, lo % Limb)
      : s \in { ShiftRightSticky(b.hi, b.lo, a.exp - b.exp) } })

\* |a| - |b| with the sign neg, for |a| >= |b| > 0
MagSub(neg, a, b) ==
  The({ IF a.lo >= s.lo
        THEN NormalizeLeft(neg, a.exp, a.hi - s.hi, a.lo - s.lo)
        ELSE NormalizeLeft(neg, a.exp, a.hi - s.hi - 1, a.lo - s.lo + Limb)
      : s \in { ShiftRightSticky(b.hi, b.lo, a.exp - b.exp) } })

\* x + y for doubles that are at hand
Sum(x, y) ==
  IF x.hi = 0 THEN y
  ELSE IF y.hi = 0 THEN x
  ELSE IF x.neg = y.neg
       THEN (IF MagLess(x, y) THEN MagAdd(x.neg, y, x)
             ELSE MagAdd(x.neg, x, y))
  ELSE IF MagLess(x, y) THEN MagSub(y.neg, y, x)
  ELSE MagSub(x.neg, x, y)

\* -x for a double that is at hand
Negated(x) == IF x.hi = 0 THEN x ELSE Double(~ x.neg, x.exp, x.hi, x.lo)

\* x < y for doubles that are at hand
Less(x, y) ==
  IF x.hi = 0 THEN y.hi # 0 /\ ~ y.neg
  ELSE IF y.hi = 0 THEN x.neg
  ELSE IF x.neg # y.neg THEN x.neg
  ELSE IF x.neg THEN MagLess(y, x)
  ELSE MagLess(x, y)

\* a + b
DoubleAdd(a, b) == The({ Sum(x, y) : x \in { a }, y \in { b } })

\* -a
DoubleNeg(a) == The({ Negated(x) : x \in { a } })

\* |a|
DoubleAbs(a) == The({ Double(FALSE, x.exp, x.hi, x.lo) : x \in { a } })

\* a - b
DoubleSub(a, b) == The({ Sum(x, Negated(y)) : x \in { a }, y \in { b } })

\* a < b
DoubleLess(a, b) == The({ Less(x, y) : x \in { a }, y \in { b } })

\* the columns of the product of the mantissas of x and y, multiplied in
\* digits: t[k] is the k-th column with the carry of the columns below;
\* the result is << t6, t5, t4, t3, whether a digit below them is not 0 >>
ProductColumns(x, y) ==
  LET x0 == x.lo % Digit
      x1 == x.lo \div Digit
      x2 == x.hi % Digit
      x3 == x.hi \div Digit
      y0 == y.lo % Digit
      y1 == y.lo \div Digit
      y2 == y.hi % Digit
      y3 == y.hi \div Digit
      t0 == x0 * y0
      t1 == x0 * y1 + x1 * y0 + t0 \div Digit
      t2 == x0 * y2 + x1 * y1 + x2 * y0 + t1 \div Digit
  IN  The({ LET t4 == x1 * y3 + x2 * y2 + x3 * y1 + t3 \div Digit
                t5 == x2 * y3 + x3 * y2 + t4 \div Digit
            IN  << x3 * y3 + t5 \div Digit, t5, t4, t3,
                   t0 % Digit # 0 \/ t1 % Digit # 0 \/ t2 % Digit # 0 >>
          : t3 \in { x0 * y3 + x1 * y2 + x2 * y1 + x3 * y0 + t2 \div Digit } })

\* x * y for doubles that are at hand
Product(x, y) ==
  IF x.hi = 0 \/ y.hi = 0 THEN DoubleZero
  ELSE The({ LET hi == t[1]
                 lo == (t[2] % Digit) * Digit + (t[3] % Digit)
                 p3 == t[4] % Digit
             IN  IF hi >= HalfLimb
                 THEN RoundNearestEven(x.neg # y.neg, x.exp + y.exp + 56, hi,
                                       Sticky(lo, t[5] \/ p3 # 0))
                 ELSE RoundNearestEven(x.neg # y.neg, x.exp + y.exp + 55,
                                       2 * hi + lo \div HalfLimb,
                                       Sticky(2 * (lo % HalfLimb)
                                                + (p3 \div HalfDigit),
                                              t[5] \/ p3 % HalfDigit # 0))
           : t \in { ProductColumns(x, y) } })

\* a * b
DoubleMul(a, b) == The({ Product(x, y) : x \in { a }, y \in { b } })

\* 56 bits, or 57 with the lowest folded into the sticky bit, of a quotient
\* or a root (hi * Limb + lo), rounded; lost tells that the remainder is
\* not zero
RoundQuotient(neg, exp, hi, lo, lost) ==
  The({ IF h >= Limb
        THEN RoundNearestEven(neg, exp + 1, h \div 2,
                              Sticky(l \div 2 + (h % 2) * HalfLimb,
                                     l % 2 = 1 \/ lost))
        ELSE RoundNearestEven(neg, exp, h, Sticky(l, lost))
      : h \in { hi },
        l \in { lo } })

\* Long division in digits.  The next digit of a quotient is estimated
\* from the two leading digits of the remainder (top) and the leading digit
\* v1 of the divisor, v1 >= HalfDigit, and corrected with the next digit of
\* each; the estimate is then the digit or one more.
QuotientEstimate(top, next, v1, v2) ==
  The({ LET r0 == top - q0 * v1
            q1 == IF r0 < Digit /\ q0 * v2 > r0 * Digit + next THEN q0 - 1
                  ELSE q0
            r1 == top - q1 * v1
        IN  IF q1 < q0 /\ r1 < Digit /\ q1 * v2 > r1 * Digit + next
            THEN q1 - 1
            ELSE q1
      : q0 \in { Min(top \div v1, Digit - 1) } })

\* r - q * v for the digits r = << r4, ..., r0 >> and v = << v3, ..., v0 >>;
\* the leading digit of the result holds the sign
SubtractProduct(r, v, q) ==
  LET c0 == r[5] - q * v[4]
      c1 == r[4] - q * v[3] + c0 \div Digit
  IN  The({ LET c3 == r[2] - q * v[1] + c2 \div Digit
            IN  << r[1] + c3 \div Digit, c3 % Digit, c2 % Digit, c1 % Digit,
                   c0 % Digit >>
          : c2 \in { r[3] - q * v[2] + c1 \div Digit } })

\* the digit q of the quotient of r = << r4, ..., r0 >> by the divisor
\* v = << v3, ..., v0 >>, r < v * Digit, and the remainder with the digit
\* next brought down
DivideDigit(r, v, next) ==
  The({ The({ IF s[1] < 0
              THEN The({ [q |-> q - 1,
                          r |-> << t[2], t[3], t[4], t[5], next >>]
                       : t \in { SubtractProduct(r, v, q - 1) } })
              ELSE [q |-> q, r |-> << s[2], s[3], s[4], s[5], next >>]
            : s \in { SubtractProduct(r, v, q) } })
      : q \in { QuotientEstimate(r[1] * Digit + r[2], r[3], v[1], v[2]) } })

\* x / y for doubles that are at hand, y # 0: five digits of the quotient
\* of the mantissas
Quotient(x, y) ==
  IF x.hi = 0 THEN DoubleZero
  ELSE The({ The({ The({ The({ The({ The({
         RoundQuotient(x.neg # y.neg, x.exp - y.exp - 56,
                       d4.q * Limb + d3.q * Digit + d2.q,
                       d1.q * Digit + d0.q,
                       d0.r # << 0, 0, 0, 0, 0 >>)
         : d0 \in { DivideDigit(d1.r, v, 0) } })
         : d1 \in { DivideDigit(d2.r, v, 0) } })
         : d2 \in { DivideDigit(d3.r, v, 0) } })
         : d3 \in { DivideDigit(d4.r, v, 0) } })
         : d4 \in { DivideDigit(<< 0, x.hi \div Digit, x.hi % Digit,
                                   x.lo \div Digit, x.lo % Digit >>,
                                v, 0) } })
         : v \in { << y.hi \div Digit, y.hi % Digit,
                      y.lo \div Digit, y.lo % Digit >> } })

\* a / b
DoubleDiv(a, b) == The({ Quotient(x, y) : x \in { a }, y \in { b } })

\* floor of the square root of n by Newton's iteration from x above it
RECURSIVE RootBelow(_, _)
RootBelow(n, x) ==
  The({ IF y >= x THEN x ELSE RootBelow(n, y)
      : y \in { (x + n \div x) \div 2 } })

\* the root s and the remainder r of hi * Limb + lo for 2^26 <= hi < 2^28:
\* the root of hi, a digit of the quotient of its remainder by twice that
\* root, and one correction
Root56(hi, lo) ==
  The({ LET num == (hi - s1 * s1) * Digit + lo \div Digit
            q == num \div (2 * s1)
            s == s1 * Digit + q
            r == (num % (2 * s1)) * Digit + (lo % Digit) - q * q
        IN  IF r < 0 THEN [s |-> s - 1, r |-> r + 2 * s - 1]
            ELSE [s |-> s, r |-> r]
      : s1 \in { RootBelow(hi, Digit) } })

\* the digit q of the quotient of r = << r2, r1, r0 >> by the divisor
\* v = << v1, v0 >>, v1 >= HalfDigit, r < v * Digit, and the remainder with
\* the digit next brought down
DivideDigit2(r, v, next) ==
  The({ The({ [q |-> q, r |-> << rem \div Digit, rem % Digit, next >>]
            : rem \in { (r[1] * Digit + r[2] - q * v[1]) * Digit + r[3] - q * v[2] } })
      : q \in { QuotientEstimate(r[1] * Digit + r[2], r[3], v[1], v[2]) } })

\* the root (shi * Limb + slo) of a radicand whose leading half has the
\* root s1, from q, half the quotient of the remainder of that half times
\* Limb by s1, and u, what that division left: one correction when the
\* remainder u * Limb - q * q is negative
RootOfQuotient(exp, s1, q, u) ==
  LET qa == q \div Digit
      qb == q % Digit
      m == 2 * qa * qb
      squareLo == qb * qb + (m % Digit) * Digit
      squareHi == qa * qa + m \div Digit + squareLo \div Limb
      rlo == (0 - squareLo) % Limb
      rhi == u - squareHi - (IF squareLo % Limb > 0 THEN 1 ELSE 0)
      shi == s1 + q \div Limb
      slo == q % Limb
      t == rlo + 2 * slo - 1
  IN  IF rhi < 0
      THEN RoundQuotient(FALSE, exp,
                         IF slo = 0 THEN shi - 1 ELSE shi,
                         IF slo = 0 THEN Limb - 1 ELSE slo - 1,
                         rhi + 2 * shi + t \div Limb # 0 \/ t % Limb # 0)
      ELSE RoundQuotient(FALSE, exp, shi, slo, rhi # 0 \/ rlo # 0)

\* Math.sqrt(x) for a double x >= 0 that is at hand.  The radicand
\* n * Limb^2 is the mantissa times 2^56, or times 2^55 when the exponent is
\* odd.  Its root is the root s1 of n, then q, half the quotient of the
\* remainder of n times Limb by s1, and one correction.
Root(x) ==
  IF x.hi = 0 THEN DoubleZero
  ELSE LET odd == x.exp % 2 = 1
           nhi == IF odd THEN x.hi \div 2 ELSE x.hi
           nlo == IF odd THEN (x.hi % 2) * HalfLimb + x.lo \div 2 ELSE x.lo
           exp == IF odd THEN (x.exp - 55) \div 2 ELSE (x.exp - 56) \div 2
       IN  The({ The({ The({ The({ The({ The({ The({ The({
             RootOfQuotient(exp, root.s, q, u)
             : q \in { (quotHi \div 2) * Limb + (quotHi % 2) * HalfLimb
                         + quotLo \div 2 },
               u \in { (quotLo % 2) * root.s + d0.r[1] * Digit
                         + d0.r[2] } })
             : quotHi \in { d3.q * Digit + d2.q },
               quotLo \in { d1.q * Digit + d0.q } })
             : d0 \in { DivideDigit2(d1.r, v, 0) } })
             : d1 \in { DivideDigit2(d2.r, v, 0) } })
             : d2 \in { DivideDigit2(d3.r, v, 0) } })
             : d3 \in { DivideDigit2(<< 0, root.r \div Limb,
                                        (root.r % Limb) \div Digit >>,
                                     v, root.r % Digit) } })
             : v \in { << root.s \div Digit, root.s % Digit >> } })
             : root \in { Root56(nhi, nlo) } })

\* Math.sqrt(a)
DoubleSqrt(a) == The({ Root(x) : x \in { a } })

\* the double of the integer n
DoubleOf(n) == NormalizeLeft(n < 0, 0, Abs(n) \div Limb, Abs(n) % Limb)

\* a * 2^k
TimesPowerOfTwo(a, k) ==
  IF a.hi = 0 THEN a ELSE Double(a.neg, a.exp + k, a.hi, a.lo)

\* the double n / d of a decimal literal
Literal(n, d) == DoubleDiv(DoubleOf(n), DoubleOf(d))

\* a / 2 and a * 2, which are exact
Half(a) == TimesPowerOfTwo(a, -1)

Twice(a) == TimesPowerOfTwo(a, 1)

\* the literal 2
DoubleTwo == DoubleOf(2)

\* Math.max(a, b)
DoubleMax(a, b) == The({ IF Less(x, y) THEN y ELSE x : x \in { a }, y \in { b } })

\* the double a, a whole number below 2^27 in magnitude, as that number
WholeNumber(a) ==
  IF a.hi = 0 THEN 0
  ELSE (IF a.neg THEN -1 ELSE 1) * (a.hi \div (2 ^ (-28 - a.exp)))

----------------------------------------------------------------------------
(* Spiral configuration: DEFAULT_SPIRAL_CONFIG *)

\* maxRadius: 500 px
MaxRadius == 500

\* radiusIncrement: 5 px
RadiusIncrement == 5

\* angleIncrement: 0.1 rad, kept as a fraction 1 / AngleIncrementInv
AngleIncrementInv == 10

\* the doubles of the configuration
maxRadius == DoubleOf(MaxRadius)

radiusIncrement == DoubleOf(RadiusIncrement)

angleIncrement == Literal(1, AngleIncrementInv)

\* Math.PI
MathPI == Double(FALSE, -54, 210828714, 35743936)

\* Math.cos(angle) of the fdlibm port, at the angle of pass k in place k + 1
CosFdlibm ==
  <<
     Double(FALSE, -55, 134217728, 0),
     Double(FALSE, -56, 267094396, 222346752),
     Double(FALSE, -56, 263084618, 196809680),
     Double(FALSE, -56, 256446186, 24661456),
     Double(FALSE, -56, 247245427, 249370560),
     Double(FALSE, -56, 235574275, 47966848),
     Double(FALSE, -56, 221549342, 37935272),
     Double(FALSE, -56, 205310761, 83684504),
     Double(FALSE, -56, 187020783, 59556656),
     Double(FALSE, -56, 166862155, 77009128),
     Double(FALSE, -56, 145036295, 229127264),
     Double(FALSE, -57, 243522563, 104532128),
     Double(FALSE, -57, 194539338, 31182496),
     Double(FALSE, -57, 143612340, 22176504),
     Double(FALSE, -58, 182500830, 10139672),
     Double(FALSE, -59, 151906983, 238013624),
     Double(TRUE, -61, 250821986, 184071064),
     Double(TRUE, -58, 138345722, 85157040),
     Double(TRUE, -58, 243956391, 153646152),
     Double(TRUE, -57, 173564764, 161623472),
     Double(TRUE, -57, 223417131, 177967200),
     Double(TRUE, -56, 135518594, 80017000),
     Double(TRUE, -56, 157974565, 205876128),
     Double(TRUE, -56, 178852107, 159481656),
     Double(TRUE, -56, 197942618, 75926616),
     Double(TRUE, -56, 215055351, 204233744),
     Double(TRUE, -56, 230019323, 67609504),
     Double(TRUE, -56, 242685017, 187702608),
     Double(TRUE, -56, 252925883, 180060784),
     Double(TRUE, -56, 260639597, 219809368),
     Double(TRUE, -56, 265749087, 70200992),
     Double(TRUE, -56, 268203299, 179646752),
     Double(TRUE, -56, 267977713, 97410472),
     Double(TRUE, -56, 265074582, 87580064),
     Double(TRUE, -56, 259522913, 183889912),
     Double(TRUE, -56, 251378177, 235459272),
     Double(TRUE, -56, 240721754, 110191248),
     Double(TRUE, -56, 227660118, 200198520),
     Double(TRUE, -56, 212323778, 115164920),
     Double(TRUE, -56, 194865969, 27674336),
     Double(TRUE, -56, 175461123, 114894248),
     Double(TRUE, -56, 154303128, 55667432),
     Double(TRUE, -57, 263206774, 72759416),
     Double(TRUE, -57, 215177417, 11655712),
     Double(TRUE, -57, 164998078, 51778896),
     Double(TRUE, -58, 226340266, 46263120),
     Double(TRUE, -59, 240845717, 181169744),
     Double(TRUE, -62, 212835617, 176382360),
     Double(FALSE, -59, 187902636, 41025536),
     Double(FALSE, -58, 200266131, 199274792),
     Double(FALSE, -57, 152289976, 56251864),
     Double(FALSE, -57, 202925255, 119727088),
     Double(FALSE, -57, 251532972, 163272224),
     Double(FALSE, -56, 148813727, 195139080),
     Double(FALSE, -56, 170374071, 153977752),
     Double(FALSE, -56, 190232094, 4104592),
     Double(FALSE, -56, 208189380, 68703056),
     Double(FALSE, -56, 224066507, 7336096),
     Double(FALSE, -56, 237704835, 87789696),
     Double(FALSE, -56, 248968095, 130711736),
     Double(FALSE, -56, 257743748, 197203776),
     Double(FALSE, -56, 263944111, 172803408),
     Double(FALSE, -56, 267507232, 63786568),
     Double(FALSE, -56, 268397508, 266588688),
     Double(FALSE, -56, 266606046, 150103368),
     Double(FALSE, -56, 262150744, 170794672),
     Double(FALSE, -56, 255076119, 34480648),
     Double(FALSE, -56, 245452857, 95365568),
     Double(FALSE, -56, 233377111, 205973744),
     Double(FALSE, -56, 218969539, 59806672),
     Double(FALSE, -56, 202374095, 113836640),
     Double(FALSE, -56, 183756596, 150285312),
     Double(FALSE, -56, 163303062, 140839296),
     Double(FALSE, -56, 141217858, 72356016),
     Double(FALSE, -57, 235443303, 190597448),
     Double(FALSE, -57, 186098419, 58386200),
     Double(FALSE, -57, 134894100, 224443608),
     Double(FALSE, -58, 164683930, 101595592),
     Double(FALSE, -60, 231736766, 203623360),
     Double(TRUE, -60, 197577625, 45161832),
     Double(TRUE, -58, 156229471, 186216128),
     Double(TRUE, -58, 261503543, 229993304),
     Double(TRUE, -57, 182082379, 141094560),
     Double(TRUE, -57, 231593680, 46990416),
     Double(TRUE, -56, 139395486, 178089616),
     Double(TRUE, -56, 161601339, 164987200),
     Double(TRUE, -56, 182192525, 107021544),
     Double(TRUE, -56, 200963303, 186242016),
     Double(TRUE, -56, 217726123, 23636416),
     Double(TRUE, -56, 232313495, 8345992),
     Double(TRUE, -56, 244579667, 87083392),
     Double(TRUE, -56, 254402080, 115189472),
     Double(TRUE, -56, 261682592, 10822528),
     Double(TRUE, -56, 266348457, 185923080),
     Double(TRUE, -56, 268353057, 160725112),
     Double(TRUE, -56, 267676362, 123232928),
     Double(TRUE, -56, 264325133, 157775504),
     Double(TRUE, -56, 258332855, 95537320),
     Double(TRUE, -56, 249759400, 168261096),
     Double(TRUE, -56, 238690432, 141239128),
     Double(TRUE, -56, 225236548, 140729336),
     Double(TRUE, -56, 209532175, 102759312),
     Double(TRUE, -56, 191734226, 1895824),
     Double(TRUE, -56, 172020531, 167493752),
     Double(TRUE, -56, 150588064, 255363800),
     Double(TRUE, -57, 255301944, 59833432),
     Double(TRUE, -57, 206876865, 243769656),
     Double(TRUE, -57, 156384742, 89543264),
     Double(TRUE, -58, 208660148, 57747144),
     Double(TRUE, -59, 204931897, 19332544),
     Double(FALSE, -63, 152065824, 258883328),
     Double(FALSE, -59, 223845163, 60806920) >>

\* Math.sin(angle) of the fdlibm port, likewise
SinFdlibm ==
  <<
     DoubleZero,
     Double(FALSE, -59, 214390629, 207509856),
     Double(FALSE, -58, 213319569, 166630880),
     Double(FALSE, -57, 158656202, 232116640),
     Double(FALSE, -57, 209067380, 156973912),
     Double(FALSE, -57, 257389626, 39333760),
     Double(FALSE, -56, 151570059, 220859080),
     Double(FALSE, -56, 172930868, 170970560),
     Double(FALSE, -56, 192563809, 100660832),
     Double(FALSE, -56, 210272716, 49103360),
     Double(FALSE, -56, 225880647, 138962792),
     Double(FALSE, -56, 239231654, 23796152),
     Double(FALSE, -56, 250192337, 13807136),
     Double(FALSE, -56, 258653180, 237564504),
     Double(FALSE, -56, 264529647, 170330136),
     Double(FALSE, -56, 267763021, 157510744),
     Double(FALSE, -56, 268320995, 251794984),
     Double(FALSE, -56, 266197995, 159172016),
     Double(FALSE, -56, 261415232, 233353080),
     Double(FALSE, -56, 254020495, 147964592),
     Double(FALSE, -56, 244087669, 109945376),
     Double(FALSE, -56, 231715999, 257660872),
     Double(FALSE, -56, 217029100, 223787056),
     Double(FALSE, -56, 200173718, 180451576),
     Double(FALSE, -56, 181318266, 236883120),
     Double(FALSE, -56, 160651142, 243160400),
     Double(FALSE, -56, 138378845, 218377632),
     Double(FALSE, -57, 229447826, 19216360),
     Double(FALSE, -57, 179845393, 183446920),
     Double(FALSE, -58, 256892011, 37848480),
     Double(FALSE, -58, 151526454, 230074720),
     Double(FALSE, -60, 178587585, 79723376),
     Double(TRUE, -60, 250715036, 255946640),
     Double(TRUE, -58, 169378149, 95970864),
     Double(TRUE, -57, 137192584, 133850200),
     Double(TRUE, -57, 188325311, 97718760),
     Double(TRUE, -57, 237576353, 260477040),
     Double(TRUE, -56, 142226806, 24173168),
     Double(TRUE, -56, 164244351, 258344296),
     Double(TRUE, -56, 184620822, 150838984),
     Double(TRUE, -56, 203152622, 249624008),
     Double(TRUE, -56, 219654589, 118900240),
     Double(TRUE, -56, 233961839, 243308256),
     Double(TRUE, -56, 245931421, 807232),
     Double(TRUE, -56, 255443736, 170477440),
     Double(TRUE, -56, 262403742, 238683136),
     Double(TRUE, -56, 266741897, 183461320),
     Double(TRUE, -56, 268414855, 163537552),
     Double(TRUE, -56, 267405901, 6418440),
     Double(TRUE, -56, 263725115, 18308408),
     Double(TRUE, -56, 257409274, 251972032),
     Double(TRUE, -56, 248521486, 113317392),
     Double(TRUE, -56, 237150553, 97593112),
     Double(TRUE, -56, 223410090, 98603584),
     Double(TRUE, -56, 207437387, 160443424),
     Double(TRUE, -56, 189392039, 5604208),
     Double(TRUE, -56, 169454347, 213364384),
     Double(TRUE, -56, 147823524, 198589968),
     Double(TRUE, -57, 249431395, 209125624),
     Double(TRUE, -57, 200723506, 6155168),
     Double(TRUE, -57, 150010053, 92608736),
     Double(TRUE, -58, 195595499, 161472960),
     Double(TRUE, -59, 178433133, 234256096),
     Double(FALSE, -61, 144430305, 106544112),
     Double(FALSE, -59, 250287511, 162087296),
     Double(FALSE, -58, 230983328, 104223248),
     Double(FALSE, -57, 167257495, 256395336),
     Double(FALSE, -57, 217352146, 28066760),
     Double(FALSE, -57, 265275085, 122717168),
     Double(FALSE, -56, 155273741, 247518192),
     Double(FALSE, -56, 176358497, 57167456),
     Double(FALSE, -56, 195681136, 186849912),
     Double(FALSE, -56, 213048594, 253642448),
     Double(FALSE, -56, 228287342, 15442104),
     Double(FALSE, -56, 241245117, 136924768),
     Double(FALSE, -56, 251792451, 132477040),
     Double(FALSE, -56, 259823958, 143114152),
     Double(FALSE, -56, 265259390, 124953152),
     Double(FALSE, -56, 268044438, 67483976),
     Double(FALSE, -56, 268151274, 164822384),
     Double(FALSE, -56, 265578832, 21396568),
     Double(FALSE, -56, 260352813, 172860440),
     Double(FALSE, -56, 252525435, 256481992),
     Double(FALSE, -56, 242174907, 156961848),
     Double(FALSE, -56, 229404647, 158318304),
     Double(FALSE, -56, 214342252, 50254408),
     Double(FALSE, -56, 197138219, 228953120),
     Double(FALSE, -56, 177964447, 158667544),
     Double(FALSE, -56, 157012513, 106338960),
     Double(FALSE, -56, 134491762, 18464744),
     Double(FALSE, -57, 221254427, 6390968),
     Double(FALSE, -57, 171314628, 218026304),
     Double(FALSE, -58, 239326222, 246214360),
     Double(FALSE, -59, 267263839, 108104240),
     Double(FALSE, -61, 212819284, 35827464),
     Double(TRUE, -59, 161385802, 86053872),
     Double(TRUE, -58, 187181956, 11379600),
     Double(TRUE, -57, 145900375, 93126912),
     Double(TRUE, -57, 196751984, 94070232),
     Double(TRUE, -57, 245637712, 151366080),
     Double(TRUE, -56, 146034554, 261780984),
     Double(TRUE, -56, 167791124, 179253840),
     Double(TRUE, -56, 187871180, 243478032),
     Double(TRUE, -56, 206074090, 109686176),
     Double(TRUE, -56, 222217975, 192702872),
     Double(TRUE, -56, 236141532, 125965776),
     Double(TRUE, -56, 247705641, 23145520),
     Double(TRUE, -56, 256794756, 219594600),
     Double(TRUE, -56, 263318064, 60349216),
     Double(TRUE, -56, 267210384, 154411680),
     Double(TRUE, -56, 268432827, 24420192),
     Double(TRUE, -56, 266973177, 142410032) >>

\* Math.cos(angle) of the glibc routines: the values that differ, each by
\* one unit in the last place
CosGlibc ==
  [CosFdlibm EXCEPT
     ![2] = Double(FALSE, -56, 267094396, 222346760),
     ![25] = Double(TRUE, -56, 197942618, 75926608),
     ![39] = Double(TRUE, -56, 212323778, 115164912),
     ![90] = Double(TRUE, -56, 232313495, 8345984)]

\* Math.sin(angle) of the glibc routines, likewise
SinGlibc ==
  [SinFdlibm EXCEPT
     ![20] = Double(FALSE, -56, 254020495, 147964584),
     ![25] = Double(FALSE, -56, 181318266, 236883112),
     ![45] = Double(TRUE, -56, 255443736, 170477432),
     ![57] = Double(TRUE, -56, 169454347, 213364376),
     ![100] = Double(TRUE, -57, 245637712, 151366072),
     ![107] = Double(TRUE, -56, 247705641, 23145528)]


\* the implementations of Math.cos and Math.sin: the port of fdlibm and the
\* routines taken from glibc
MathLibraries == { "fdlibm", "glibc" }

\* the last pass the tables of Math.cos and Math.sin cover
LastStep == Len(CosFdlibm) - 1

\* Math.cos(angle) and Math.sin(angle) at the angle of pass k
MathCos(libm, k) ==
  IF libm = "glibc" THEN CosGlibc[k + 1] ELSE CosFdlibm[k + 1]

MathSin(libm, k) ==
  IF libm = "glibc" THEN SinGlibc[k + 1] ELSE SinFdlibm[k + 1]

\* radius after the update of a pass with radiusIncrement 0: it stays
RadiusAfterStill(radius, angle) == radius

\* radius after radius += radiusIncrement * (angle / (2 * Math.PI)), angle
\* being the angle after angle += angleIncrement
RadiusAfter(radius, angle) ==
  DoubleAdd(radius,
            DoubleMul(radiusIncrement,
                      DoubleDiv(angle, DoubleMul(DoubleTwo, MathPI))))

\* angle and radius at the next test of the while condition
SpiralStep(at) ==
  The({ [angle |-> nextAngle, radius |-> RadiusAfter(at.radius, nextAngle)]
      : nextAngle \in { DoubleAdd(at.angle, angleIncrement) } })

\* the path of angle and radius with the next n tests added
RECURSIVE SpiralFrom(_, _)
SpiralFrom(path, n) ==
  IF n = 0 THEN path
  ELSE The({ SpiralFrom(longer, n - 1)
           : longer \in { Append(path, SpiralStep(path[Len(path)])) } })

\* passes are evaluated in blocks of this many
SearchBlock == 2 ^ 3

\* the path with b blocks of tests added
RECURSIVE SpiralBlocks(_, _)
SpiralBlocks(path, b) ==
  IF b = 0 THEN path
  ELSE The({ SpiralBlocks(longer, b - 1)
           : longer \in { SpiralFrom(path, SearchBlock) } })

\* angle and radius when the while loop of findNonCollidingPosition tests
\* its condition for the (k+1)-th time, in place k + 1, k = 0..LastStep + 1
SpiralPath ==
  SubSeq(SpiralBlocks(<< [angle |-> DoubleZero, radius |-> DoubleZero] >>,
                      (LastStep + SearchBlock) \div SearchBlock),
         1, LastStep + 2)

----------------------------------------------------------------------------
(* Geometry / collision kernel *)

\* the Bounds literal { x: x - width / 2, y: y - height / 2, width, height }
BoundsAt(x, y, width, height) ==
  [x |-> DoubleSub(x, Half(width)), y |-> DoubleSub(y, Half(height)),
   width |-> width, height |-> height]

ItemBounds(item) == BoundsAt(item.x, item.y, item.width, item.height)

\* hasCollision(bounds1, bounds2, minSpacing): bounds1 grown by spacing on
\* every side meets bounds2
hasCollision(bounds1, bounds2, spacing) ==
  The({ ~ ( \/ DoubleLess(DoubleAdd(expandedBounds1.x, expandedBounds1.width),
                          bounds2.x)
            \/ DoubleLess(DoubleAdd(bounds2.x, bounds2.width),
                          expandedBounds1.x)
            \/ DoubleLess(DoubleAdd(expandedBounds1.y,
                                    expandedBounds1.height),
                          bounds2.y)
            \/ DoubleLess(DoubleAdd(bounds2.y, bounds2.height),
                          expandedBounds1.y) )
      : expandedBounds1 \in
          { [x |-> DoubleSub(bounds1.x, spacing),
             y |-> DoubleSub(bounds1.y, spacing),
             width |-> DoubleAdd(bounds1.width, DoubleMul(spacing, DoubleTwo)),
             height |-> DoubleAdd(bounds1.height,
                                  DoubleMul(spacing, DoubleTwo))] } })

hasCollisionWithPlaced(candidateBounds, placedItems, spacing) ==
  \E i \in 1..Len(placedItems) :
    hasCollision(candidateBounds, ItemBounds(placedItems[i]), spacing)

\* isWithinContainer that tests the left and top edges only
isWithinContainerLeftTop(bounds, cont) ==
  ~ DoubleLess(bounds.x, DoubleZero) /\ ~ DoubleLess(bounds.y, DoubleZero)

isWithinContainer(bounds, cont) ==
  /\ ~ DoubleLess(bounds.x, DoubleZero)
  /\ ~ DoubleLess(bounds.y, DoubleZero)
  /\ ~ DoubleLess(cont.width, DoubleAdd(bounds.x, bounds.width))
  /\ ~ DoubleLess(cont.height, DoubleAdd(bounds.y, bounds.height))

----------------------------------------------------------------------------
(* Spiral placement *)

\* the null of findNonCollidingPosition
NoPosition == [found |-> FALSE, x |-> DoubleZero, y |-> DoubleZero]

Position(x, y) == [found |-> TRUE, x |-> x, y |-> y]

\* the function f as a table: comparing f with itself enumerates it, so
\* every value is computed once
Table(f) == IF f = f THEN f ELSE f

\* radius * Math.cos(angle) and radius * Math.sin(angle) of pass k
SpiralOffset ==
  Table([libm \in MathLibraries |->
           [k \in 0..LastStep |->
              [x |-> DoubleMul(SpiralPath[k + 1].radius, MathCos(libm, k)),
               y |-> DoubleMul(SpiralPath[k + 1].radius, MathSin(libm, k))]]])

\* the passes whose radius passes the loop condition radius < maxRadius; the
\* radius never decreases, so they are the passes the loop can make
SpiralSteps ==
  { k \in 0..LastStep : DoubleLess(SpiralPath[k + 1].radius, maxRadius) }

\* { x, y } of pass k: startCenter.x + radius * Math.cos(angle) and
\* startCenter.y + radius * Math.sin(angle)
Candidate(cont, libm, k) ==
  Position(DoubleAdd(cont.center.x, SpiralOffset[libm][k].x),
           DoubleAdd(cont.center.y, SpiralOffset[libm][k].y))

\* the if of the loop body for the candidate: it is in the container and
\* collides with no placed item
CandidateFits(item, placedItems, cont, spacing, candidate) ==
  The({ /\ isWithinContainer(candidateBounds, cont)
        /\ ~ hasCollisionWithPlaced(candidateBounds, placedItems, spacing)
      : candidateBounds \in { BoundsAt(candidate.x, candidate.y, item.width,
                                       item.height) } })

\* the passes k..last of the while loop of findNonCollidingPosition: the
\* first candidate that fits, null when none does or the radius budget
\* ends first
RECURSIVE SpiralPasses(_, _, _, _, _, _, _)
SpiralPasses(item, placedItems, cont, spacing, libm, k, last) ==
  IF k > last \/ k \notin SpiralSteps THEN NoPosition
  ELSE IF CandidateFits(item, placedItems, cont, spacing,
                        Candidate(cont, libm, k))
       THEN Candidate(cont, libm, k)
  ELSE SpiralPasses(item, placedItems, cont, spacing, libm, k + 1, last)

\* the while loop of findNonCollidingPosition from pass k on: it returns at
\* the first pass whose candidate fits, and null when the radius budget
\* ends first
RECURSIVE SpiralSearch(_, _, _, _, _, _)
SpiralSearch(item, placedItems, cont, spacing, libm, k) ==
  IF k \notin SpiralSteps THEN NoPosition
  ELSE The({ IF found.found THEN found
             ELSE SpiralSearch(item, placedItems, cont, spacing, libm,
                               k + SearchBlock)
           : found \in { SpiralPasses(item, placedItems, cont, spacing, libm,
                                      k, k + SearchBlock - 1) } })

findNonCollidingPosition(item, placedItems, cont, spacing, libm) ==
  The({ IF /\ ~ hasCollisionWithPlaced(centerBounds, placedItems, spacing)
           /\ isWithinContainer(centerBounds, cont)
        THEN Position(cont.center.x, cont.center.y)
        ELSE SpiralSearch(item, placedItems, cont, spacing, libm, 0)
      : centerBounds \in { BoundsAt(cont.center.x, cont.center.y, item.width, item.height) } })

\* the entry validateNoOverlaps pushes for a colliding pair, the two ids
\* of `${item1.id} overlaps with ${item2.id}`
OverlapEntry(item1, item2) == << item1.id, item2.id >>

\* the two loops of validateNoOverlaps from the pair i, j on
RECURSIVE OverlappingFrom(_, _, _, _)
OverlappingFrom(placedItems, spacing, i, j) ==
  IF i > Len(placedItems) THEN << >>
  ELSE IF j > Len(placedItems)
       THEN OverlappingFrom(placedItems, spacing, i + 1, i + 2)
  ELSE (IF hasCollision(ItemBounds(placedItems[i]),
                        ItemBounds(placedItems[j]), spacing)
        THEN << OverlapEntry(placedItems[i], placedItems[j]) >>
        ELSE << >>)
       \o OverlappingFrom(placedItems, spacing, i, j + 1)

\* the two loops with the inner one started at the outer index
OverlappingPairsWithSelf(placedItems, spacing) ==
  OverlappingFrom(placedItems, spacing, 1, 1)

\* the array overlapping of validateNoOverlaps, one entry per colliding
\* pair i < j in the order of the loops
OverlappingPairs(placedItems, spacing) ==
  OverlappingFrom(placedItems, spacing, 1, 2)

\* validateNoOverlaps with hasOverlaps true from length 0 on
validateNoOverlapsFromZero(placedItems, spacing) ==
  The({ [hasOverlaps |-> Len(overlapping) >= 0,
         overlapping |-> overlapping]
      : overlapping \in { OverlappingPairs(placedItems, spacing) } })

validateNoOverlaps(placedItems, spacing) ==
  The({ [hasOverlaps |-> Len(overlapping) > 0,
         overlapping |-> overlapping]
      : overlapping \in { OverlappingPairs(placedItems, spacing) } })

\* x put into the sorted list in front of the elements of its own
\* importance, as a sort that is not stable may do
RECURSIVE InsertBeforeEquals(_, _)
InsertBeforeEquals(sorted, x) ==
  IF sorted = << >> THEN << x >>
  ELSE IF Head(sorted).importance > x.importance
       THEN << Head(sorted) >> \o InsertBeforeEquals(Tail(sorted), x)
       ELSE << x >> \o sorted

\* x put into a list sorted by importance, highest first, behind every
\* element that is at least as important
RECURSIVE InsertByImportance(_, _)
InsertByImportance(sorted, x) ==
  IF sorted = << >> THEN << x >>
  ELSE IF Head(sorted).importance >= x.importance
       THEN << Head(sorted) >> \o InsertByImportance(Tail(sorted), x)
       ELSE << x >> \o sorted

\* the sort with the comparator turned round: a.importance - b.importance
RECURSIVE SortByImportanceAscending(_)
SortByImportanceAscending(list) ==
  IF list = << >> THEN << >>
  ELSE The({ The({ SelectSeq(sorted,
                             LAMBDA y : y.importance <= x.importance)
                   \o << x >>
                   \o SelectSeq(sorted,
                                LAMBDA y : y.importance > x.importance)
                 : x \in { list[Len(list)] } })
           : sorted \in { SortByImportanceAscending(SubSeq(list, 1, Len(list) - 1)) } })

\* [...items].sort((a, b) => b.importance - a.importance), a stable sort
RECURSIVE SortByImportance(_)
SortByImportance(list) ==
  IF list = << >> THEN << >>
  ELSE The({ InsertByImportance(sorted, list[Len(list)])
           : sorted \in { SortByImportance(SubSeq(list, 1, Len(list) - 1)) } })

\* the object pushed by spiralLayout with the item's width and height
\* left behind
WithPositionUnsized(item, pos) ==
  [id |-> item.id, text |-> item.text, fontSize |-> item.fontSize,
   importance |-> item.importance, width |-> DoubleZero,
   height |-> DoubleZero, x |-> pos.x, y |-> pos.y]

WithPosition(item, pos) ==
  [id |-> item.id, text |-> item.text, fontSize |-> item.fontSize,
   importance |-> item.importance, width |-> item.width,
   height |-> item.height, x |-> pos.x, y |-> pos.y]

\* the loop of spiralLayout leaving at the first item that finds no
\* position (break in place of continue)
RECURSIVE PlaceAllUntilFailure(_, _, _, _, _)
PlaceAllUntilFailure(sortedItems, placedItems, cont, spacing, libm) ==
  IF sortedItems = << >> THEN placedItems
  ELSE The({ IF position.found
             THEN The({ PlaceAllUntilFailure(Tail(sortedItems), pushed, cont,
                                             spacing, libm)
                      : pushed \in { Append(placedItems,
                                            WithPosition(Head(sortedItems), position)) } })
             ELSE placedItems
           : position \in { findNonCollidingPosition(Head(sortedItems), placedItems, cont,
                                                     spacing, libm) } })

\* the for loop of spiralLayout over the sorted items still to be placed
RECURSIVE PlaceAll(_, _, _, _, _)
PlaceAll(sortedItems, placedItems, cont, spacing, libm) ==
  IF sortedItems = << >> THEN placedItems
  ELSE The({ IF position.found
             THEN The({ PlaceAll(Tail(sortedItems), pushed, cont, spacing,
                                 libm)
                      : pushed \in { Append(placedItems,
                                            WithPosition(Head(sortedItems), position)) } })
             ELSE PlaceAll(Tail(sortedItems), placedItems, cont, spacing,
                           libm)
           : position \in { findNonCollidingPosition(Head(sortedItems), placedItems, cont,
                                                     spacing, libm) } })

\* spiralLayout; libm names the engine's Math.cos and Math.sin
spiralLayout(list, cont, spacing, libm) ==
  The({ PlaceAll(sortedItems, << >>, cont, spacing, libm)
      : sortedItems \in { SortByImportance(list) } })

----------------------------------------------------------------------------
(* Force relaxation: DEFAULT_FORCE_CONFIG *)

\* maxIterations: 100, also the default of the maxIterations parameter
DefaultMaxIterations == 100

\* repulsionStrength: 1000
RepulsionStrength == 1000

\* damping: 0.9, in tenths
DampingTenths == 9

\* centeringStrength: 0.1, kept as 1 / CenteringStrengthInv
CenteringStrengthInv == 10

\* convergenceThreshold: 0.1 px, kept as 1 / ConvergenceThresholdInv px
ConvergenceThresholdInv == 10

\* the time step 0.01 of the velocity update, kept as 1 / TimeStepInv
TimeStepInv == 100

\* the spread 100 px of the initial jitter (Math.random() - 0.5) * 100
JitterSpread == 100

\* outcomes of Math.random(), as numerators over 100
RandomTable == << 20, 60, 50, 95, 0, 70, 45 >>

\* the n-th value of Math.random() in the run numbered seed: run 0 draws
\* the same value every time, the other runs walk the table
Random(seed, n) ==
  Literal(RandomTable[((seed * n) % Len(RandomTable)) + 1], 100)

\* the doubles of the configuration and of the literals 0.5 and 0.01
repulsionStrength == DoubleOf(RepulsionStrength)

damping == Literal(DampingTenths, 10)

centeringStrength == Literal(1, CenteringStrengthInv)

convergenceThreshold == Literal(1, ConvergenceThresholdInv)

timeStep == Literal(1, TimeStepInv)

DoubleHalf == Literal(1, 2)

\* (Math.random() - 0.5) * 100
RandomJitter(seed, n) ==
  DoubleMul(DoubleSub(Random(seed, n), DoubleHalf), DoubleOf(JitterSpread))

\* a ForceItem; x, y, vx, vy, fx and fy are doubles, in px
ForceItem(item, x, y, vx, vy, fx, fy) ==
  [id |-> item.id, text |-> item.text, fontSize |-> item.fontSize,
   importance |-> item.importance, width |-> item.width,
   height |-> item.height, x |-> x, y |-> y,
   vx |-> vx, vy |-> vy, fx |-> fx, fy |-> fy]

initializeForceItems(list, cont, seed) ==
  Array([i \in 1..Len(list) |->
           ForceItem(list[i],
                     DoubleAdd(cont.center.x, RandomJitter(seed, 2 * i - 1)),
                     DoubleAdd(cont.center.y, RandomJitter(seed, 2 * i)),
                     DoubleZero, DoubleZero, DoubleZero, DoubleZero)])

\* { fx: 0, fy: 0 }
NoForce == [fx |-> DoubleZero, fy |-> DoubleZero]

\* forces after the four updates of the inner loop of
\* calculateRepulsionForces with the pair's fx and fy, acc before
ApplyPair(acc, i, j, fx, fy) ==
  [acc EXCEPT ![i] = [fx |-> DoubleSub(acc[i].fx, fx),
                      fy |-> DoubleSub(acc[i].fy, fy)],
              ![j] = [fx |-> DoubleAdd(acc[j].fx, fx),
                      fy |-> DoubleAdd(acc[j].fy, fy)]]

\* the body of the inner loop of calculateRepulsionForces for item1 =
\* items[i] and item2 = items[j]: forces after it, acc before
PairRepulsion(acc, list, i, j, spacing) ==
  The({ The({
    IF DoubleLess(distance, minDistance) /\ DoubleLess(DoubleZero, distance)
    THEN The({ The({ ApplyPair(acc, i, j, fx, fy)
                   : fx \in { DoubleMul(force, dx) },
                     fy \in { DoubleMul(force, dy) } })
             : force \in { DoubleDiv(DoubleMul(repulsionStrength,
                                               DoubleSub(minDistance,
                                                         distance)),
                                     distance) } })
    ELSE acc
    : distance \in { DoubleSqrt(DoubleAdd(DoubleMul(dx, dx),
                                          DoubleMul(dy, dy))) },
      minDistance \in { DoubleAdd(
                          DoubleAdd(Half(DoubleAdd(list[i].width,
                                                   list[j].width)),
                                    Half(DoubleAdd(list[i].height,
                                                   list[j].height))),
                          spacing) } })
    : dx \in { DoubleSub(list[j].x, list[i].x) },
      dy \in { DoubleSub(list[j].y, list[i].y) } })

\* the inner loop of calculateRepulsionForces from j on; acc is forces, as
\* long as items
RECURSIVE InnerLoop(_, _, _, _, _)
InnerLoop(acc, list, i, j, spacing) ==
  IF j > Len(list) THEN acc
  ELSE The({ InnerLoop(next, list, i, j + 1, spacing)
           : next \in { PairRepulsion(acc, list, i, j, spacing) } })

\* the outer loop of calculateRepulsionForces from i on
RECURSIVE OuterLoop(_, _, _, _)
OuterLoop(acc, list, i, spacing) ==
  IF i > Len(list) THEN acc
  ELSE The({ OuterLoop(next, list, i + 1, spacing)
           : next \in { InnerLoop(acc, list, i, i + 1, spacing) } })

calculateRepulsionForces(list, spacing) ==
  The({ OuterLoop(acc, list, 1, spacing)
      : acc \in { Array([i \in 1..Len(list) |-> NoForce]) } })

\* boundaryFx of calculateCenteringForces from itemLeft, itemRight and
\* container.width, and boundaryFy from itemTop, itemBottom and
\* container.height: of the two ifs the later one wins
BoundaryForce(itemLeft, itemRight, width) ==
  IF DoubleLess(width, itemRight)
  THEN DoubleMul(DoubleSub(width, itemRight), repulsionStrength)
  ELSE IF DoubleLess(itemLeft, DoubleZero)
       THEN DoubleMul(DoubleNeg(itemLeft), repulsionStrength)
  ELSE DoubleZero

\* fx of one element of calculateCenteringForces from item.x, item.width,
\* container.center.x and container.width, and fy from item.y,
\* item.height, container.center.y and container.height
AxisCenteringForce(x, half, center, width) ==
  DoubleAdd(DoubleMul(DoubleSub(center, x), centeringStrength),
            The({ BoundaryForce(itemLeft, itemRight, width)
                : itemLeft \in { DoubleSub(x, half) },
                  itemRight \in { DoubleAdd(x, half) } }))

\* one element of calculateCenteringForces
CenteringForce(item, cont) ==
  [fx |-> The({ AxisCenteringForce(item.x, half, cont.center.x, cont.width)
              : half \in { Half(item.width) } }),
   fy |-> The({ AxisCenteringForce(item.y, half, cont.center.y, cont.height)
              : half \in { Half(item.height) } })]

calculateCenteringForces(list, cont) ==
  Array([i \in 1..Len(list) |-> CenteringForce(list[i], cont)])

\* the reduce of hasConverged over items[from..], sum so far
RECURSIVE TotalMovement(_, _, _)
TotalMovement(list, from, sum) ==
  IF from > Len(list) THEN sum
  ELSE The({ TotalMovement(list, from + 1, next)
           : next \in { DoubleAdd(sum, DoubleSqrt(
                          DoubleAdd(DoubleMul(list[from].vx, list[from].vx),
                                    DoubleMul(list[from].vy,
                                              list[from].vy)))) } })

\* hasConverged(items, threshold) for a list that is not empty
hasConverged(list) ==
  DoubleLess(DoubleDiv(TotalMovement(list, 1, DoubleZero),
                       DoubleOf(Len(list))),
             convergenceThreshold)

\* the new item of the map callback in the loop of forceDirectedLayout
MoveItem(item, totalFx, totalFy) ==
  The({ ForceItem(item, DoubleAdd(item.x, newVx), DoubleAdd(item.y, newVy),
                  newVx, newVy, totalFx, totalFy)
      : newVx \in { DoubleMul(DoubleAdd(item.vx,
                                        DoubleMul(totalFx, timeStep)),
                              damping) },
        newVy \in { DoubleMul(DoubleAdd(item.vy,
                                        DoubleMul(totalFy, timeStep)),
                              damping) } })

\* the forces and the map of the while loop of forceDirectedLayout
ForceStep(forceItems, cont, spacing) ==
  The({ Array([i \in 1..Len(forceItems) |->
                 The({ MoveItem(forceItems[i], totalFx, totalFy)
                     : totalFx \in { DoubleAdd(repulsionForces[i].fx,
                                               centeringForces[i].fx) },
                       totalFy \in { DoubleAdd(repulsionForces[i].fy,
                                               centeringForces[i].fy) } })])
      : repulsionForces \in { calculateRepulsionForces(forceItems, spacing) },
        centeringForces \in { calculateCenteringForces(forceItems, cont) } })

\* the loop state of forceDirectedLayout
LoopState(forceItems, iteration, converged) ==
  [forceItems |-> forceItems, iteration |-> iteration, converged |-> converged]

\* the while condition without its iteration budget
LoopRunsUnbudgeted(st, maxIter) == ~ st.converged

\* the condition of the while loop
LoopRuns(st, maxIter) == st.iteration < maxIter /\ ~ st.converged

\* one pass of the loop body: the step, the convergence test, iteration++
LoopBody(st, cont, spacing) ==
  The({ LoopState(next, st.iteration + 1, hasConverged(next))
      : next \in { ForceStep(st.forceItems, cont, spacing) } })

\* at most n passes of the while loop
RECURSIVE Passes(_, _, _, _, _)
Passes(st, cont, spacing, maxIter, n) ==
  IF n = 0 \/ ~ LoopRuns(st, maxIter) THEN st
  ELSE The({ Passes(next, cont, spacing, maxIter, n - 1)
           : next \in { LoopBody(st, cont, spacing) } })

\* passes are evaluated in blocks of this many
BlockLength == 10

\* the while loop of forceDirectedLayout, as b blocks of passes
RECURSIVE Simulate(_, _, _, _, _)
Simulate(st, cont, spacing, maxIter, b) ==
  IF b = 0 \/ ~ LoopRuns(st, maxIter) THEN st
  ELSE The({ Simulate(next, cont, spacing, maxIter, b - 1)
           : next \in { Passes(st, cont, spacing, maxIter, BlockLength) } })

\* forceDirectedLayout up to the end of its while loop
forceSimulation(list, cont, spacing, maxIter, seed) ==
  The({ Simulate(st, cont, spacing, maxIter,
                 (maxIter + BlockLength - 1) \div BlockLength)
      : st \in { LoopState(initializeForceItems(list, cont, seed), 0,
                            FALSE) } })

\* the PlacedItem { id, text, fontSize, importance, width, height, x, y } of
\* a force item
PlacedItemOf(item) ==
  [id |-> item.id, text |-> item.text, fontSize |-> item.fontSize,
   importance |-> item.importance, width |-> item.width,
   height |-> item.height, x |-> item.x, y |-> item.y]

\* the final map of forceDirectedLayout behind a filter that keeps the
\* items whose centre is within 1000 px of the origin along both axes
ToPlacedItemsNearby(forceItems) ==
  The({ Array([i \in 1..Len(kept) |-> PlacedItemOf(kept[i])])
      : kept \in { SelectSeq(forceItems,
                             LAMBDA item :
                               /\ ~ DoubleLess(DoubleOf(1000), DoubleAbs(item.x))
                               /\ ~ DoubleLess(DoubleOf(1000), DoubleAbs(item.y))) } })

\* the final map of forceDirectedLayout, back to the PlacedItem format
ToPlacedItems(forceItems) ==
  Array([i \in 1..Len(forceItems) |-> PlacedItemOf(forceItems[i])])

\* what a layout function returns and the iteration count its force loop
\* logs, 0 when no force loop ran
Outcome(result, iterationsRun) ==
  [result |-> result, iterations |-> iterationsRun]

\* forceDirectedLayout with the iteration count it logs; seed numbers the
\* outcome of Math.random
forceDirectedRun(list, cont, spacing, maxIter, seed) ==
  IF Len(list) = 0 THEN Outcome(<< >>, 0)
  ELSE The({ Outcome(ToPlacedItems(st.forceItems), st.iteration)
           : st \in { forceSimulation(list, cont, spacing, maxIter, seed) } })

forceDirectedLayout(list, cont, spacing, maxIter, seed) ==
  forceDirectedRun(list, cont, spacing, maxIter, seed).result

\* hybridLayout that never keeps the spiral result
hybridRunAlwaysForce(list, cont, spacing, seed, libm) ==
  forceDirectedRun(list, cont, spacing, DefaultMaxIterations, seed)

\* hybridLayout that accepts every overlap-free spiral result, complete or
\* not
hybridRunOverlapOnly(list, cont, spacing, seed, libm) ==
  The({ IF ~ validateNoOverlaps(spiralResult, spacing).hasOverlaps
        THEN Outcome(spiralResult, 0)
        ELSE forceDirectedRun(list, cont, spacing, DefaultMaxIterations, seed)
      : spiralResult \in { spiralLayout(list, cont, spacing, libm) } })

\* hybridLayout with the iteration count logged by the forceDirectedLayout
\* it falls back to
hybridRun(list, cont, spacing, seed, libm) ==
  The({ IF /\ ~ validateNoOverlaps(spiralResult, spacing).hasOverlaps
           /\ Len(spiralResult) = Len(list)
        THEN Outcome(spiralResult, 0)
        ELSE forceDirectedRun(list, cont, spacing, DefaultMaxIterations, seed)
      : spiralResult \in { spiralLayout(list, cont, spacing, libm) } })

hybridLayout(list, cont, spacing, seed, libm) ==
  hybridRun(list, cont, spacing, seed, libm).result

----------------------------------------------------------------------------
(* Strategy selector *)

\* DensityBelow with the bound included: itemCount / containerArea <= n / d
DensityAtMost(count, area, n, d) == area > 0 /\ count * d <= n * area

\* itemCount / containerArea < n / d for a non-negative area; a division by
\* zero yields Infinity (NaN for 0 / 0), which is below nothing
DensityBelow(count, area, n, d) == area > 0 /\ count * d < n * area

\* itemCount / containerArea > n / d; Infinity is above everything
DensityAbove(count, area, n, d) ==
  \/ area > 0 /\ count * d > n * area
  \/ area = 0 /\ count > 0

\* selectOptimalAlgorithm with the rule for many items ahead of the rule
\* for a sparse container
selectOptimalAlgorithmManyFirst(count, area) ==
  IF count <= 10 THEN "spiral"
  ELSE IF count > 50 \/ DensityAbove(count, area, 1, 100) THEN "force-directed"
  ELSE IF DensityBelow(count, area, 1, 1000) THEN "spiral"
  ELSE "hybrid"

selectOptimalAlgorithm(count, area) ==
  IF count <= 10 THEN "spiral"
  ELSE IF DensityBelow(count, area, 1, 1000) THEN "spiral"
  ELSE IF count > 50 \/ DensityAbove(count, area, 1, 100) THEN "force-directed"
  ELSE "hybrid"

----------------------------------------------------------------------------
(* Sizing stage *)

RECURSIVE MinValue(_)
MinValue(list) ==
  IF Len(list) = 1 THEN list[1].value
  ELSE Min(list[1].value, MinValue(Tail(list)))

RECURSIVE MaxValue(_)
MaxValue(list) ==
  IF Len(list) = 1 THEN list[1].value
  ELSE Max(list[1].value, MaxValue(Tail(list)))

\* text.length
TextLength(text) == Len(text)

\* fontSize, textWidth and textHeight of the map callback of
\* calculateFontSizes
TextSize(item, minValue, valueRange, range) ==
  The({ The({ [fontSize |-> fontSize,
               textWidth |-> DoubleMul(DoubleOf(TextLength(item.text)),
                                       charWidth),
               textHeight |-> DoubleMul(fontSize, Literal(12, 10))]
            : charWidth \in { DoubleMul(fontSize, Literal(6, 10)) } })
      : fontSize \in
          { The({ DoubleAdd(range.min,
                            DoubleMul(normalizedValue,
                                      DoubleSub(range.max, range.min)))
                : normalizedValue \in
                    { DoubleDiv(DoubleSub(DoubleOf(item.value),
                                          DoubleOf(minValue)),
                                DoubleOf(valueRange)) } }) } })

\* the map callback of calculateFontSizes with the tap target applied to
\* the height only
SizeItemHeightOnly(item, minValue, valueRange, range, tapTarget) ==
  The({ [id |-> item.id, text |-> item.text, fontSize |-> size.fontSize,
         importance |-> item.value,
         width |-> size.textWidth,
         height |-> DoubleMax(size.textHeight, tapTarget)]
      : size \in { TextSize(item, minValue, valueRange, range) } })

\* the map callback of calculateFontSizes
SizeItem(item, minValue, valueRange, range, tapTarget) ==
  The({ [id |-> item.id, text |-> item.text, fontSize |-> size.fontSize,
         importance |-> item.value,
         width |-> DoubleMax(size.textWidth, tapTarget),
         height |-> DoubleMax(size.textHeight, tapTarget)]
      : size \in { TextSize(item, minValue, valueRange, range) } })

calculateFontSizes(list, range, tapTarget) ==
  IF Len(list) = 0 THEN << >>
  ELSE LET minValue == MinValue(list)
           maxValue == MaxValue(list)
           valueRange == IF maxValue - minValue = 0 THEN 1
                         ELSE maxValue - minValue
       IN  Array([i \in 1..Len(list) |->
                    SizeItem(list[i], minValue, valueRange, range, tapTarget)])

----------------------------------------------------------------------------
(* Inputs *)

\* sequences over S of length 0..n
SeqsUpTo(S, n) == UNION { [1..k -> S] : k \in 0..n }

\* importance, width and height (px) of the items handed to the layouts
ItemShapes ==
  { [importance |-> 1, width |-> 48, height |-> 48],
    [importance |-> 3, width |-> 96, height |-> 48],
    [importance |-> 2, width |-> 96, height |-> 96] }

\* container sizes (px): roomy, tight, narrow, crowded, too narrow for the
\* wide items, and zero area
ContainerSizes ==
  { << 800, 500 >>, << 200, 200 >>, << 100, 500 >>, << 100, 100 >>,
    << 60, 300 >>, << 0, 0 >> }

\* minSpacing values (px)
Spacings == { 0, 8 }

\* the WordItem of shape sh with id i
WordItem(i, sh) ==
  [id |-> i, text |-> "word", fontSize |-> DoubleOf(16),
   importance |-> sh.importance,
   width |-> DoubleOf(sh.width), height |-> DoubleOf(sh.height)]

\* the bounds object performLayout builds from the container's rectangle
\* of width and height px
ContainerBounds(width, height) ==
  [width |-> DoubleOf(width), height |-> DoubleOf(height),
   center |-> [x |-> Half(DoubleOf(width)), y |-> Half(DoubleOf(height))]]

\* the item lists of at most n items
ItemLists(n) ==
  { [i \in DOMAIN shapes |-> WordItem(i, shapes[i])] :
      shapes \in SeqsUpTo(ItemShapes, n) }

\* widths (px) that are not whole: 220 + 6 * 2^-44, and the width
\* 84.81100785706121 with which the box of an item at the 64th point of
\* the spiral in the container of 800 x 300 px has its left edge at
\* 518 + 4 * 2^-44
TightWidths ==
  << DoubleAdd(DoubleOf(220), TimesPowerOfTwo(DoubleOf(6), -44)),
     Double(FALSE, -49, 177861574, 201179392) >>

\* the two items of these widths, 140 px high, the wider the more
\* important, in either order
TightLists ==
  { [i \in 1..2 |->
       [id |-> i, text |-> "word", fontSize |-> DoubleOf(16),
        importance |-> 3 - order[i],
        width |-> TightWidths[order[i]], height |-> DoubleOf(140)]]
    : order \in { << 1, 2 >>, << 2, 1 >> } }

\* the variables of the calls of the collision kernel at rest
KernelIdle ==
  /\ boxA = "none"
  /\ boxB = "none"
  /\ kernelSpacing = "none"
  /\ collisionAB = "none"
  /\ collisionBA = "none"

\* no component is mounted
ComponentIdle ==
  /\ algorithmProp = "none"
  /\ selectedAlgorithm = "none"
  /\ containerRef = "null"
  /\ containerRect = << 0, 0 >>
  /\ placedItemsState = << >>
  /\ isLayoutComplete = FALSE
  /\ layoutError = "null"
  /\ layoutTimer = FALSE
  /\ resizeTimers = 0
  /\ inertResizeTimers = 0
  /\ resizeListener = FALSE
  /\ itemChanges = 0
  /\ analytics = "absent"

\* no debounced calculator has been created
DebounceIdle ==
  /\ clock = 0
  /\ timers = { }
  /\ timeoutId = 0
  /\ timerIds = 0
  /\ callTimes = << >>
  /\ runTimes = << >>

\* no search is under way
SearchIdle ==
  /\ searchState = "idle"
  /\ searchStep = 0
  /\ searchAngle = DoubleZero
  /\ searchRadius = DoubleZero
  /\ searchPosition = NoPosition

\* no force simulation is under way
SimIdle ==
  /\ simPhase = "idle"
  /\ simulation = LoopState(<< >>, 0, FALSE)
  /\ forces = << >>

\* initialState of the quiz store, before any call
QuizIdle ==
  /\ filters = [location |-> << >>, category |-> << >>, month |-> << >>]
  /\ currentStep = 1
  /\ isComplete = FALSE
  /\ quizCall = [name |-> "none", step |-> 0]
  /\ stepAccess = [canAccess |-> TRUE, redirectTo |-> << >>]

TailIdle == SearchIdle /\ SimIdle /\ QuizIdle

LateIdle ==
  ComponentIdle /\ DebounceIdle /\ validations = << >> /\ TailIdle

RestIdle == KernelIdle /\ LateIdle

\* the variables of the selector and of the sizing stage at rest
SelectIdle == itemCount = 0 /\ containerArea = 0 /\ selected = "none"

SizesIdle ==
  /\ rawItems = << >>
  /\ fontSizeRange = [min |-> DoubleZero, max |-> DoubleZero]
  /\ minTapTarget = DoubleZero
  /\ sized = << >>

\* no layout function is called; the engine is the one with fdlibm
LayoutIdle ==
  /\ items = << >>
  /\ container = ContainerBounds(0, 0)
  /\ minSpacing = DoubleZero
  /\ maxIterations = DefaultMaxIterations
  /\ placed = << >>
  /\ algorithm = "none"
  /\ iterations = 0
  /\ randomSeed = 0
  /\ mathLibrary = "fdlibm"

----------------------------------------------------------------------------
(* The layout functions applied to the inputs *)

Init ==
  /\ \/ /\ items \in ItemLists(MaxItems)
        /\ \E size \in ContainerSizes :
             container = ContainerBounds(size[1], size[2])
        /\ \E s \in Spacings : minSpacing = DoubleOf(s)
     \/ /\ items \in TightLists
        /\ container = ContainerBounds(800, 300)
        /\ minSpacing = DoubleOf(8)
  /\ maxIterations = DefaultMaxIterations
  /\ placed = << >>
  /\ algorithm = "none"
  /\ iterations = 0
  /\ randomSeed = 0
  /\ mathLibrary \in MathLibraries
  /\ SelectIdle
  /\ SizesIdle
  /\ RestIdle

\* placed = spiralLayout(items, container, minSpacing)
SpiralLayoutCall ==
  /\ algorithm = "none"
  /\ placed' = spiralLayout(items, container, minSpacing, mathLibrary)
  /\ algorithm' = "spiral"
  /\ iterations' = 0
  /\ randomSeed' = 0
  /\ UNCHANGED << items, container, minSpacing, maxIterations, mathLibrary >>
  /\ UNCHANGED << selectVars, sizeVars, restVars >>

\* placed = forceDirectedLayout(items, container, minSpacing, m), with one
\* outcome of the random initial positions
ForceDirectedLayoutCall ==
  \E m \in 0..MaxIterArg, seed \in 0..MaxSeed :
    /\ algorithm = "none"
    /\ \E run \in { forceDirectedRun(items, container, minSpacing, m,
                                      seed) } :
         /\ placed' = run.result
         /\ iterations' = run.iterations
    /\ randomSeed' = seed
    /\ maxIterations' = m
    /\ algorithm' = "force-directed"
    /\ UNCHANGED << items, container, minSpacing, mathLibrary >>
    /\ UNCHANGED << selectVars, sizeVars, restVars >>

\* placed = hybridLayout(items, container, minSpacing); iterations is what
\* the forceDirectedLayout it falls back to logged
HybridLayoutCall ==
  \E seed \in 0..MaxSeed :
    /\ algorithm = "none"
    /\ \E run \in { hybridRun(items, container, minSpacing, seed,
                               mathLibrary) } :
         /\ placed' = run.result
         /\ iterations' = run.iterations
    /\ algorithm' = "hybrid"
    /\ randomSeed' = seed
    /\ maxIterations' = DefaultMaxIterations
    /\ UNCHANGED << items, container, minSpacing, mathLibrary >>
    /\ UNCHANGED << selectVars, sizeVars, restVars >>

Next == SpiralLayoutCall \/ ForceDirectedLayoutCall

Spec == Init /\ [][Next]_vars

----------------------------------------------------------------------------
(* hybridLayout applied to the inputs *)

\* container sizes (px) handed to hybridLayout: roomy and crowded
HybridContainerSizes == { << 800, 500 >>, << 100, 100 >> }

InitHybrid ==
  /\ items \in ItemLists(MaxHybridItems)
  /\ \E size \in HybridContainerSizes :
       container = ContainerBounds(size[1], size[2])
  /\ \E s \in Spacings : minSpacing = DoubleOf(s)
  /\ maxIterations = DefaultMaxIterations
  /\ placed = << >>
  /\ algorithm = "none"
  /\ iterations = 0
  /\ randomSeed = 0
  /\ mathLibrary \in MathLibraries
  /\ SelectIdle
  /\ SizesIdle
  /\ RestIdle

NextHybrid == HybridLayoutCall

SpecHybrid == InitHybrid /\ [][NextHybrid]_vars

----------------------------------------------------------------------------
(* selectOptimalAlgorithm applied to the inputs *)

\* container areas (px * px), among them 0 and the areas at which a
\* density threshold is met exactly for some item count
ContainerAreas ==
  { 0, 1000, 1100, 2000, 5000, 11000, 30000, 50000, 51000, 90000, 400000 }

InitSelect ==
  /\ itemCount \in 0..MaxItemCount
  /\ containerArea \in ContainerAreas
  /\ selected = "none"
  /\ LayoutIdle
  /\ SizesIdle
  /\ RestIdle

\* selected = selectOptimalAlgorithm(itemCount, containerArea)
SelectCall ==
  /\ selected = "none"
  /\ selected' = selectOptimalAlgorithm(itemCount, containerArea)
  /\ UNCHANGED << itemCount, containerArea >>
  /\ UNCHANGED << layoutVars, sizeVars, restVars >>

NextSelect == SelectCall

SpecSelect == InitSelect /\ [][NextSelect]_vars

----------------------------------------------------------------------------
(* calculateFontSizes applied to the inputs *)

\* item values
RawValues == { 0, 10, 25 }

\* item texts, the empty text among them
RawTexts == { "", "Wien", "Innere Stadt" }

\* font-size ranges (px): the usual one, a degenerate one, an inverted one
FontSizeRanges ==
  { [min |-> 12, max |-> 32], [min |-> 16, max |-> 16],
    [min |-> 60, max |-> 20] }

\* minTapTarget values (px)
TapTargets == { 48, 24 }

RawItemLists ==
  { [i \in DOMAIN l |-> [id |-> i, value |-> l[i][1], text |-> l[i][2]]] :
      l \in SeqsUpTo(RawValues \X RawTexts, MaxRawItems) }

InitSizes ==
  /\ rawItems \in RawItemLists
  /\ \E r \in FontSizeRanges :
       fontSizeRange = [min |-> DoubleOf(r.min), max |-> DoubleOf(r.max)]
  /\ \E t \in TapTargets : minTapTarget = DoubleOf(t)
  /\ sized = << >>
  /\ LayoutIdle
  /\ SelectIdle
  /\ RestIdle

\* sized = calculateFontSizes(rawItems, fontSizeRange, minTapTarget), as
\* the component calls it: only for a non-empty list
CalculateFontSizesCall ==
  /\ sized = << >>
  /\ Len(rawItems) > 0
  /\ sized' = calculateFontSizes(rawItems, fontSizeRange, minTapTarget)
  /\ UNCHANGED << rawItems, fontSizeRange, minTapTarget >>
  /\ UNCHANGED << layoutVars, selectVars, restVars >>

NextSizes == CalculateFontSizesCall

SpecSizes == InitSizes /\ [][NextSizes]_vars

----------------------------------------------------------------------------
(* hasCollision applied to boxes and spacings that are not dyadic *)

\* the doubles of the literals 0.1, 1 and 1.1
DoubleTenth == Literal(1, 10)

DoubleOne == DoubleOf(1)

DoubleOneAndTenth == Literal(11, 10)

\* the boxes handed to the kernel: corners and widths among 0, 0.1, 1, 1.1
KernelBoxes ==
  [x : { DoubleZero, DoubleTenth, DoubleOne, DoubleOneAndTenth },
   y : { DoubleZero, DoubleOneAndTenth },
   width : { DoubleOne, DoubleOneAndTenth },
   height : { DoubleOne }]

\* the minSpacing values handed to the kernel: 0, 0.1 and 1
KernelSpacings == { DoubleZero, DoubleTenth, DoubleOne }

InitKernel ==
  /\ boxA \in KernelBoxes
  /\ boxB \in KernelBoxes
  /\ kernelSpacing \in KernelSpacings
  /\ collisionAB = "none"
  /\ collisionBA = "none"
  /\ LayoutIdle
  /\ SelectIdle
  /\ SizesIdle
  /\ LateIdle

\* collisionAB = hasCollision(boxA, boxB, kernelSpacing)
HasCollisionCall ==
  /\ collisionAB = "none"
  /\ collisionAB' = IF hasCollision(boxA, boxB, kernelSpacing)
                    THEN "true" ELSE "false"
  /\ UNCHANGED << boxA, boxB, kernelSpacing, collisionBA >>
  /\ UNCHANGED << layoutVars, selectVars, sizeVars, lateVars >>

\* collisionBA = hasCollision(boxB, boxA, kernelSpacing)
HasCollisionSwappedCall ==
  /\ collisionBA = "none"
  /\ collisionBA' = IF hasCollision(boxB, boxA, kernelSpacing)
                    THEN "true" ELSE "false"
  /\ UNCHANGED << boxA, boxB, kernelSpacing, collisionAB >>
  /\ UNCHANGED << layoutVars, selectVars, sizeVars, lateVars >>

NextKernel == HasCollisionCall \/ HasCollisionSwappedCall

SpecKernel == InitKernel /\ [][NextKernel]_vars

----------------------------------------------------------------------------
(* The NonOverlappingWordCloud component *)

\* at most this many 150 ms timers of handleResize are pending at once
MaxResizeTimers == 2

\* measureLayoutPerformance(layoutFunction, ...) given what layoutFunction
\* returns and the analytics collaborator: the call of analytics.track is
\* not guarded, so what it throws leaves the function in place of the
\* return value.  message is what the catch of performLayout makes of it:
\* error.message, which is empty for new Error(), or 'Layout failed' for
\* a value that is no Error
measureLayoutPerformance(result, collaborator) ==
  IF collaborator = "throws"
  THEN [thrown |-> TRUE, message |-> "thrown", result |-> << >>]
  ELSE IF collaborator = "throwsEmpty"
       THEN [thrown |-> TRUE, message |-> "", result |-> << >>]
  ELSE [thrown |-> FALSE, message |-> "null", result |-> result]

\* the memo itemsWithSizes
itemsWithSizes(list, range, tapTarget) ==
  IF Len(list) = 0 THEN << >> ELSE calculateFontSizes(list, range, tapTarget)

\* the memo selectedAlgorithm, computed while rendering; on the first
\* render the ref is still null
selectedAlgorithmMemo(prop, ref, count, rect) ==
  IF prop # "auto" THEN prop
  ELSE IF ref = "null" THEN "spiral"
  ELSE selectOptimalAlgorithm(count, rect[1] * rect[2])

\* what the switch of performLayout runs, given the outcome of the random
\* initial positions and the engine's Math.cos and Math.sin: the result
\* and the iteration count logged
LayoutFunction(name, list, cont, spacing, seed, libm) ==
  IF name = "force-directed"
  THEN forceDirectedRun(list, cont, spacing, DefaultMaxIterations, seed)
  ELSE IF name = "hybrid" THEN hybridRun(list, cont, spacing, seed, libm)
  ELSE Outcome(spiralLayout(list, cont, spacing, libm), 0)

\* which view the component renders: if (layoutError) brings up the error
\* view, which has no container element, so the ref is null while it is
\* shown; null and the empty message are falsy
RenderedRef(err) == IF err \in { "null", "" } THEN "attached" ELSE "null"

\* the algorithm prop
AlgorithmProps == { "auto", "spiral", "force-directed", "hybrid" }

\* the items prop: none, one word, two words, two words one of which is
\* wider than the narrow container
ComponentItems ==
  { << >>,
    << [id |-> 1, value |-> 10, text |-> "Wien"] >>,
    << [id |-> 1, value |-> 10, text |-> "Wien"],
       [id |-> 2, value |-> 25, text |-> "Graz"] >>,
    << [id |-> 1, value |-> 25, text |-> "Innere Stadt"],
       [id |-> 2, value |-> 10, text |-> "Wien"] >> }

\* sizes (px) the container element takes
ContainerRects == { << 800, 500 >>, << 100, 100 >> }

\* the collaborator window.analytics
Collaborators == { "absent", "ok", "throws", "throwsEmpty" }

\* the parent hands over new props at most this often after the mount
MaxItemChanges == 1

\* the length of the long item list
CrowdLength == 11

\* a long items prop, handed over at the mount with algorithm 'auto'
CrowdItems == [i \in 1..CrowdLength |-> [id |-> i, value |-> 10, text |-> "Wien"]]

\* fontSizeRange, minTapTarget and minSpacing as the component is mounted
ComponentFontSizeRange == [min |-> DoubleOf(12), max |-> DoubleOf(32)]

ComponentTapTarget == DoubleOf(48)

ComponentSpacing == DoubleOf(8)

\* the input of a layout pass: << algorithm, sized items, container size,
\* outcome of Math.random, Math library >>.  spiralLayout draws no random
\* number and forceDirectedLayout calls neither Math.cos nor Math.sin, so
\* their inputs are told apart by one seed and one library only.
LayoutInput(name, list, rect, seed, libm) ==
  << name, list, rect,
     IF name = "spiral" THEN 0 ELSE seed,
     IF name = "force-directed" THEN "fdlibm" ELSE libm >>

\* what performLayout can be asked to lay out: the short items props with
\* every algorithm, the long one with the strategy it is mounted with
ShortLayoutInputs ==
  { LayoutInput(name, itemsWithSizes(list, ComponentFontSizeRange,
                                     ComponentTapTarget),
                rect, seed, libm) :
      name \in { "spiral", "force-directed", "hybrid" },
      list \in ComponentItems, rect \in ContainerRects,
      seed \in 0..MaxSeed, libm \in MathLibraries }
  \cup
  { LayoutInput("spiral", itemsWithSizes(CrowdItems, ComponentFontSizeRange,
                                         ComponentTapTarget),
                rect, 0, libm) :
      rect \in ContainerRects, libm \in MathLibraries }

\* LayoutFunction on these inputs; the layout functions are pure given the
\* outcome of Math.random and the Math library, so every pass with the same
\* input returns this
ShortLayouts ==
  Table([k \in ShortLayoutInputs |->
           LayoutFunction(k[1], k[2], ContainerBounds(k[3][1], k[3][2]),
                          ComponentSpacing, k[4], k[5])])

\* the call of the layout function in performLayout
PerformedLayout(name, list, rect, spacing, seed, libm) ==
  IF LayoutInput(name, list, rect, seed, libm) \in ShortLayoutInputs
     /\ spacing = ComponentSpacing
  THEN ShortLayouts[LayoutInput(name, list, rect, seed, libm)]
  ELSE LayoutFunction(name, list, ContainerBounds(rect[1], rect[2]),
                      spacing, seed, libm)

\* the component after it was mounted with isLoading false and its layout
\* effects ran once: the layout effect either finds nothing to lay out or
\* starts the 10 ms timer, the resize effect adds its listener
InitComponent ==
  /\ \/ rawItems \in ComponentItems /\ algorithmProp \in AlgorithmProps
     \/ rawItems = CrowdItems /\ algorithmProp = "auto"
  /\ fontSizeRange = ComponentFontSizeRange
  /\ minTapTarget = ComponentTapTarget
  /\ sized = itemsWithSizes(rawItems, fontSizeRange, minTapTarget)
  /\ minSpacing = ComponentSpacing
  /\ containerRect \in ContainerRects
  /\ selectedAlgorithm =
       selectedAlgorithmMemo(algorithmProp, "null", Len(rawItems),
                             containerRect)
  /\ containerRef = "attached"
  /\ placedItemsState = << >>
  /\ isLayoutComplete = (Len(sized) = 0)
  /\ layoutError = "null"
  /\ layoutTimer = (Len(sized) > 0)
  /\ resizeTimers = 0
  /\ inertResizeTimers = 0
  /\ resizeListener = TRUE
  /\ itemChanges = 0
  /\ analytics \in Collaborators
  /\ items = << >>
  /\ container = ContainerBounds(0, 0)
  /\ maxIterations = DefaultMaxIterations
  /\ placed = << >>
  /\ algorithm = "none"
  /\ iterations = 0
  /\ randomSeed = 0
  /\ mathLibrary \in MathLibraries
  /\ SelectIdle
  /\ KernelIdle
  /\ DebounceIdle
  /\ validations = << >>
  /\ TailIdle

\* the 10 ms timer fires and performLayout runs; items, container, placed,
\* algorithm, iterations and randomSeed record the call of the layout
\* function it made
PerformLayout ==
  \E seed \in 0..MaxSeed :
    /\ layoutTimer
    \* the ref is attached whenever the timer is pending: only a pass
    \* brings up the error view
    /\ containerRef = "attached"
    /\ layoutTimer' = FALSE
    /\ items' = sized
    /\ container' = ContainerBounds(containerRect[1], containerRect[2])
    /\ algorithm' = selectedAlgorithm
    /\ \E run \in { PerformedLayout(selectedAlgorithm, sized, containerRect,
                                     minSpacing, seed, mathLibrary) } :
         /\ placed' = run.result
         /\ iterations' = run.iterations
    /\ randomSeed' = IF selectedAlgorithm = "spiral" THEN 0 ELSE seed
    /\ LET measured == measureLayoutPerformance(placed', analytics)
       IN  /\ placedItemsState' = IF measured.thrown THEN placedItemsState
                                  ELSE measured.result
           /\ layoutError' =
                IF measured.thrown THEN measured.message
                ELSE IF Len(measured.result) < Len(sized) THEN "incomplete"
                ELSE layoutError
    /\ isLayoutComplete' = TRUE
    /\ containerRef' = RenderedRef(layoutError')
    /\ UNCHANGED << minSpacing, maxIterations, mathLibrary >>
    /\ UNCHANGED << algorithmProp, selectedAlgorithm, containerRect,
                    resizeTimers, inertResizeTimers, resizeListener,
                    itemChanges, analytics >>
    /\ UNCHANGED << selectVars, sizeVars, kernelVars, debounceVars,
                    validations, tailVars >>

\* the window fires resize and the container takes another size:
\* handleResize starts a 150 ms timer and nobody keeps its handle.  The
\* timer's callback sees the list length of the render that added the
\* listener.
Resize ==
  \E rect \in ContainerRects :
    /\ resizeListener
    /\ rect # containerRect
    /\ resizeTimers < MaxResizeTimers
    /\ containerRect' = rect
    /\ resizeTimers' = resizeTimers + 1
    /\ inertResizeTimers' =
         IF Len(sized) > 0 THEN inertResizeTimers ELSE inertResizeTimers + 1
    /\ UNCHANGED << algorithmProp, selectedAlgorithm, containerRef,
                    placedItemsState, isLayoutComplete, layoutError,
                    layoutTimer, resizeListener, itemChanges, analytics >>
    /\ UNCHANGED << layoutVars, selectVars, sizeVars, kernelVars,
                    debounceVars, validations, tailVars >>

\* a 150 ms timer of handleResize fires: one that saw a non-empty list
\* calls setIsLayoutComplete(false), one that saw an empty list does nothing
ResizeTimerFires ==
  \E inert \in BOOLEAN :
    /\ IF inert THEN inertResizeTimers > 0
       ELSE resizeTimers > inertResizeTimers
    /\ resizeTimers' = resizeTimers - 1
    /\ inertResizeTimers' =
         IF inert THEN inertResizeTimers - 1 ELSE inertResizeTimers
    /\ isLayoutComplete' = IF inert THEN isLayoutComplete ELSE FALSE
    /\ UNCHANGED << algorithmProp, selectedAlgorithm, containerRef,
                    containerRect, placedItemsState, layoutError,
                    layoutTimer, resizeListener, itemChanges, analytics >>
    /\ UNCHANGED << layoutVars, selectVars, sizeVars, kernelVars,
                    debounceVars, validations, tailVars >>

\* the parent renders again and hands over another items array, with other
\* words or with the same (or the same array and another fontSizeRange
\* object of the same values): the memo itemsWithSizes is recomputed and
\* gives a new array, the view of the current layoutError is committed,
\* then the layout effect runs again (its cleanup clears the 10 ms timer),
\* and the resize effect too when the list length changed
SetItems ==
  \E list \in ComponentItems \cup { rawItems } :
    /\ algorithmProp # "none"
    /\ itemChanges < MaxItemChanges
    /\ itemChanges' = itemChanges + 1
    /\ rawItems' = list
    /\ sized' = itemsWithSizes(list, fontSizeRange, minTapTarget)
    /\ selectedAlgorithm' =
         IF Len(list) = Len(rawItems) THEN selectedAlgorithm
         ELSE selectedAlgorithmMemo(algorithmProp, containerRef, Len(list),
                                    containerRect)
    /\ IF containerRef = "null" \/ Len(list) = 0
       THEN /\ isLayoutComplete' = TRUE
            /\ layoutTimer' = FALSE
            /\ UNCHANGED layoutError
       ELSE /\ isLayoutComplete' = FALSE
            /\ layoutError' = "null"
            /\ layoutTimer' = TRUE
    /\ resizeListener' =
         IF Len(list) = Len(rawItems) THEN resizeListener
         ELSE containerRef = "attached"
    /\ UNCHANGED << fontSizeRange, minTapTarget >>
    /\ UNCHANGED << algorithmProp, containerRef, containerRect,
                    placedItemsState, resizeTimers, inertResizeTimers,
                    analytics >>
    /\ UNCHANGED << layoutVars, selectVars, kernelVars, debounceVars,
                    validations, tailVars >>

NextComponent == PerformLayout \/ Resize \/ ResizeTimerFires \/ SetItems

SpecComponent == InitComponent /\ [][NextComponent]_vars

\* the browser delivers the timers that are due, the layout timer and the
\* resize timers; when the window is resized is up to the user.
\* PerformLayout is enabled exactly while layoutTimer is set and clears
\* it, and a pending layoutTimer is cleared otherwise only when the items
\* change, so weak fairness of PerformLayout says that layoutTimer is
\* clear again and again.
FairSpecComponent ==
  /\ SpecComponent
  /\ []<>(~layoutTimer)
  /\ WF_vars(ResizeTimerFires)

----------------------------------------------------------------------------
(* createDebouncedLayoutCalculator *)

\* the default of the parameter delay (ms)
DebounceDelay == 150

\* time passes in steps of this many ms
ClockStep == 50

\* the scenario ends at this time (ms)
MaxClock == 600

\* the debounced function is called at most this often
MaxCalls == 4

\* clearTimeout(id) on the pending timers; clearing an undefined or a
\* fired handle does nothing
clearTimeoutMissing(pending, id) == pending

clearTimeout(pending, id) == { t \in pending : t.id # id }

\* createDebouncedLayoutCalculator(layoutFunction) was just called:
\* timeoutId is undefined and nothing is pending
InitDebounce ==
  /\ DebounceIdle
  /\ LayoutIdle
  /\ SelectIdle
  /\ SizesIdle
  /\ KernelIdle
  /\ ComponentIdle
  /\ validations = << >>
  /\ TailIdle

\* the returned function is called: it clears the timer timeoutId names,
\* due or not, and starts a new one
DebouncedCall ==
  /\ Len(callTimes) < MaxCalls
  /\ timerIds' = timerIds + 1
  /\ timers' = clearTimeout(timers, timeoutId)
                 \cup { [id |-> timerIds', due |-> clock + DebounceDelay] }
  /\ timeoutId' = timerIds'
  /\ callTimes' = Append(callTimes, clock)
  /\ UNCHANGED << clock, runTimes >>
  /\ UNCHANGED << layoutVars, selectVars, sizeVars, kernelVars,
                  componentVars, validations, tailVars >>

\* the callback of a pending timer runs layoutFunction, at the due time or,
\* when the thread was busy, later; runTimes records when, and how many
\* calls of the debounced function had been made
TimerFires ==
  \E t \in timers :
    /\ t.due <= clock
    /\ timers' = timers \ { t }
    /\ runTimes' = Append(runTimes, [at |-> clock, calls |-> Len(callTimes)])
    /\ UNCHANGED << clock, timeoutId, timerIds, callTimes >>
    /\ UNCHANGED << layoutVars, selectVars, sizeVars, kernelVars,
                    componentVars, validations, tailVars >>

\* time passes, whether or not a timer is due
Tick ==
  /\ clock < MaxClock
  /\ clock' = clock + ClockStep
  /\ UNCHANGED << timers, timeoutId, timerIds, callTimes, runTimes >>
  /\ UNCHANGED << layoutVars, selectVars, sizeVars, kernelVars,
                  componentVars, validations, tailVars >>

NextDebounce == DebouncedCall \/ TimerFires \/ Tick

SpecDebounce == InitDebounce /\ [][NextDebounce]_vars

----------------------------------------------------------------------------
(* The three layout functions applied to the same inputs *)

NextLayouts == SpiralLayoutCall \/ ForceDirectedLayoutCall \/ HybridLayoutCall

SpecLayouts == InitHybrid /\ [][NextLayouts]_vars

----------------------------------------------------------------------------
(* validateNoOverlaps applied to placed lists *)

\* at most this many placed items
MaxPlaced == 3

\* validateNoOverlaps is called at most this often on a list
MaxValidations == 2

\* centres (px) of the placed items: next to each other along x with 4 px
\* between 48 px boxes, and one below
PlacedSpots ==
  { << 100, 100 >>, << 152, 100 >>, << 204, 100 >>, << 100, 152 >> }

\* shapes of the placed items
PlacedShapes ==
  { [importance |-> 1, width |-> 48, height |-> 48],
    [importance |-> 3, width |-> 96, height |-> 48] }

\* the PlacedItem lists of at most n items, ids in list order
PlacedLists(n) ==
  { [i \in DOMAIN l |->
       WithPosition(WordItem(i, l[i][1]),
                    Position(DoubleOf(l[i][2][1]), DoubleOf(l[i][2][2])))] :
      l \in SeqsUpTo(PlacedShapes \X PlacedSpots, n) }

InitValidate ==
  /\ placed \in PlacedLists(MaxPlaced)
  /\ \E s \in Spacings : minSpacing = DoubleOf(s)
  /\ items = << >>
  /\ container = ContainerBounds(0, 0)
  /\ maxIterations = DefaultMaxIterations
  /\ algorithm = "none"
  /\ iterations = 0
  /\ randomSeed = 0
  /\ mathLibrary = "fdlibm"
  /\ validations = << >>
  /\ TailIdle
  /\ SelectIdle
  /\ SizesIdle
  /\ KernelIdle
  /\ ComponentIdle
  /\ DebounceIdle

\* validateNoOverlaps(placed, minSpacing) is called; validations records
\* the list as it is after the call and the object returned.  The function
\* only reads placedItems.
ValidateNoOverlapsCall ==
  /\ Len(validations) < MaxValidations
  /\ placed' = placed
  /\ validations' =
       Append(validations,
              [list |-> placed',
               result |-> validateNoOverlaps(placed, minSpacing)])
  /\ UNCHANGED << items, container, minSpacing, maxIterations, algorithm,
                  iterations, randomSeed, mathLibrary >>
  /\ UNCHANGED << selectVars, sizeVars, kernelVars, componentVars,
                  debounceVars, tailVars >>

NextValidate == ValidateNoOverlapsCall

SpecValidate == InitValidate /\ [][NextValidate]_vars

----------------------------------------------------------------------------
(* findNonCollidingPosition taken one loop pass at a time *)

\* the placedItems handed to the search: none, or one item at the centre
PlacedBefore(cont) ==
  { << >> } \cup
  { << WithPosition(WordItem(2, sh), Position(cont.center.x, cont.center.y)) >> :
      sh \in ItemShapes }

\* findNonCollidingPosition(items[1], placed, container, config) is about
\* to be called
InitSearch ==
  /\ \E sh \in ItemShapes : items = << WordItem(1, sh) >>
  /\ \E size \in ContainerSizes :
       container = ContainerBounds(size[1], size[2])
  /\ placed \in PlacedBefore(container)
  /\ \E s \in Spacings : minSpacing = DoubleOf(s)
  /\ maxIterations = DefaultMaxIterations
  /\ algorithm = "none"
  /\ iterations = 0
  /\ randomSeed = 0
  /\ mathLibrary \in MathLibraries
  /\ SearchIdle
  /\ SimIdle
  /\ QuizIdle
  /\ SelectIdle
  /\ SizesIdle
  /\ KernelIdle
  /\ ComponentIdle
  /\ DebounceIdle
  /\ validations = << >>

\* the function is entered: radius = 0, angle = 0, and the centre is tried
SearchCentre ==
  /\ searchState = "idle"
  /\ LET centerBounds == BoundsAt(container.center.x, container.center.y,
                                  items[1].width, items[1].height)
     IN  IF /\ ~ hasCollisionWithPlaced(centerBounds, placed, minSpacing)
            /\ isWithinContainer(centerBounds, container)
         THEN /\ searchState' = "found"
              /\ searchPosition' = Position(container.center.x,
                                            container.center.y)
         ELSE /\ searchState' = "loop"
              /\ searchPosition' = searchPosition
  /\ UNCHANGED << searchStep, searchAngle, searchRadius >>
  /\ UNCHANGED << layoutVars, selectVars, sizeVars, kernelVars,
                  componentVars, debounceVars, validations, simVars,
                  quizVars >>

\* the while condition fails: return null
SearchGivesUp ==
  /\ searchState = "loop"
  /\ ~ DoubleLess(searchRadius, maxRadius)
  /\ searchState' = "null"
  /\ UNCHANGED << searchStep, searchAngle, searchRadius, searchPosition >>
  /\ UNCHANGED << layoutVars, selectVars, sizeVars, kernelVars,
                  componentVars, debounceVars, validations, simVars,
                  quizVars >>

\* one pass of the loop body: the candidate is returned, or angle and
\* radius move along the spiral.  searchStep tells which entry of the
\* tables is Math.cos(searchAngle).
SearchPass ==
  /\ searchState = "loop"
  /\ DoubleLess(searchRadius, maxRadius)
  /\ \E candidate \in
         { Position(DoubleAdd(container.center.x,
                              DoubleMul(searchRadius,
                                        MathCos(mathLibrary, searchStep))),
                    DoubleAdd(container.center.y,
                              DoubleMul(searchRadius,
                                        MathSin(mathLibrary, searchStep)))) } :
       IF CandidateFits(items[1], placed, container, minSpacing, candidate)
       THEN /\ searchState' = "found"
            /\ searchPosition' = candidate
            /\ UNCHANGED << searchStep, searchAngle, searchRadius >>
       ELSE /\ searchStep' = searchStep + 1
            /\ searchAngle' = DoubleAdd(searchAngle, angleIncrement)
            /\ searchRadius' = RadiusAfter(searchRadius, searchAngle')
            /\ UNCHANGED << searchState, searchPosition >>
  /\ UNCHANGED << layoutVars, selectVars, sizeVars, kernelVars,
                  componentVars, debounceVars, validations, simVars,
                  quizVars >>

NextSearch == SearchCentre \/ SearchGivesUp \/ SearchPass

SpecSearch == InitSearch /\ [][NextSearch]_vars

\* the function keeps running until it returns
FairSpecSearch == SpecSearch /\ WF_vars(NextSearch)

----------------------------------------------------------------------------
(* forceDirectedLayout taken one loop pass at a time *)

\* the values of the argument maxIterations: none, a few, the default
IterationBudgets == { 0, 3, DefaultMaxIterations }

\* the container size (px) of the stepwise runs: the crowded one
SimContainerSizes == { << 100, 100 >> }

\* the items of the stepwise runs: the small and the large square
SimItemLists(n) ==
  { [i \in DOMAIN shapes |-> WordItem(i, shapes[i])] :
      shapes \in SeqsUpTo({ s \in ItemShapes : s.width = s.height }, n) }

\* forceDirectedLayout(items, container, minSpacing, maxIterations) is
\* about to be called
InitSim ==
  /\ items \in SimItemLists(MaxHybridItems)
  /\ \E size \in SimContainerSizes :
       container = ContainerBounds(size[1], size[2])
  /\ \E s \in Spacings : minSpacing = DoubleOf(s)
  /\ maxIterations \in IterationBudgets
  /\ placed = << >>
  /\ algorithm = "none"
  /\ iterations = 0
  /\ randomSeed = 0
  /\ mathLibrary = "fdlibm"
  /\ SearchIdle
  /\ SimIdle
  /\ QuizIdle
  /\ SelectIdle
  /\ SizesIdle
  /\ KernelIdle
  /\ ComponentIdle
  /\ DebounceIdle
  /\ validations = << >>

\* the function is entered: an empty list returns at once, otherwise the
\* items get their random start positions, iteration = 0, converged = false
SimStart ==
  \E seed \in 0..MaxSeed :
    /\ simPhase = "idle"
    /\ IF Len(items) = 0
       THEN /\ simPhase' = "done"
            /\ algorithm' = "force-directed"
            /\ UNCHANGED simulation
       ELSE /\ simPhase' = "loop"
            /\ simulation' =
                 LoopState(initializeForceItems(items, container, seed), 0,
                           FALSE)
            /\ UNCHANGED algorithm
    /\ UNCHANGED << items, container, minSpacing, maxIterations, placed,
                    iterations, randomSeed, mathLibrary, forces >>
    /\ UNCHANGED << selectVars, sizeVars, kernelVars, componentVars,
                    debounceVars, validations, searchVars, quizVars >>

\* the while condition holds and the loop body runs once
SimPass ==
  /\ simPhase = "loop"
  /\ LoopRuns(simulation, maxIterations)
  /\ simulation' = LoopBody(simulation, container, minSpacing)
  /\ UNCHANGED << simPhase, forces >>
  /\ UNCHANGED << layoutVars, selectVars, sizeVars, kernelVars,
                  componentVars, debounceVars, validations, searchVars,
                  quizVars >>

\* the while condition fails: the items are converted and returned
SimEnds ==
  /\ simPhase = "loop"
  /\ ~ LoopRuns(simulation, maxIterations)
  /\ simPhase' = "done"
  /\ placed' = ToPlacedItems(simulation.forceItems)
  /\ iterations' = simulation.iteration
  /\ algorithm' = "force-directed"
  /\ UNCHANGED << simulation, forces, items, container, minSpacing,
                  maxIterations, randomSeed, mathLibrary >>
  /\ UNCHANGED << selectVars, sizeVars, kernelVars, componentVars,
                  debounceVars, validations, searchVars, quizVars >>

NextSim == SimStart \/ SimPass \/ SimEnds

SpecSim == InitSim /\ [][NextSim]_vars

\* the function keeps running until it returns
FairSpecSim == SpecSim /\ WF_vars(NextSim)

----------------------------------------------------------------------------
(* calculateRepulsionForces applied to pairs of force items *)

\* centres (px) of the first and of the second item: the same point, side
\* by side, diagonal, far apart
FirstCentres == { << 100, 100 >>, << 130, 100 >> }

SecondCentres ==
  { << 100, 100 >>, << 130, 100 >>, << 160, 100 >>, << 400, 100 >>,
    << 100, 140 >>, << 130, 140 >>, << 160, 140 >>, << 400, 140 >> }

\* the force item of shape sh with id i at the centre c, at rest
ForceItemAt(i, sh, c) ==
  ForceItem(WordItem(i, sh), DoubleOf(c[1]), DoubleOf(c[2]),
            DoubleZero, DoubleZero, DoubleZero, DoubleZero)

InitRepulsion ==
  /\ \E sh1 \in PlacedShapes, sh2 \in PlacedShapes,
        c1 \in FirstCentres, c2 \in SecondCentres :
       simulation = LoopState(<< ForceItemAt(1, sh1, c1),
                                 ForceItemAt(2, sh2, c2) >>, 0, FALSE)
  /\ \E s \in Spacings : minSpacing = DoubleOf(s)
  /\ simPhase = "idle"
  /\ forces = << >>
  /\ items = << >>
  /\ container = ContainerBounds(0, 0)
  /\ maxIterations = DefaultMaxIterations
  /\ placed = << >>
  /\ algorithm = "none"
  /\ iterations = 0
  /\ randomSeed = 0
  /\ mathLibrary = "fdlibm"
  /\ SearchIdle
  /\ QuizIdle
  /\ SelectIdle
  /\ SizesIdle
  /\ KernelIdle
  /\ ComponentIdle
  /\ DebounceIdle
  /\ validations = << >>

\* forces = calculateRepulsionForces(forceItems, config)
RepulsionCall ==
  /\ forces = << >>
  /\ forces' = calculateRepulsionForces(simulation.forceItems, minSpacing)
  /\ UNCHANGED << simPhase, simulation >>
  /\ UNCHANGED << layoutVars, selectVars, sizeVars, kernelVars,
                  componentVars, debounceVars, validations, searchVars,
                  quizVars >>

NextRepulsion == RepulsionCall

SpecRepulsion == InitRepulsion /\ [][NextRepulsion]_vars

----------------------------------------------------------------------------
(* Quiz store: filters, step navigation, route guard, URL sync *)

\* null or undefined, and a value that is present
Null == << >>

Some(v) == << v >>

\* JavaScript numbers as the store holds them: NaN, Infinity and -Infinity
\* (n is then 1 or -1), or the double n; -0 is the zero with neg = TRUE
NaN == [nan |-> TRUE, inf |-> FALSE, n |-> DoubleZero]

Infinity(neg) ==
  [nan |-> FALSE, inf |-> TRUE,
   n |-> IF neg THEN DoubleNeg(DoubleOne) ELSE DoubleOne]

Number(n) == [nan |-> FALSE, inf |-> FALSE, n |-> DoubleOf(n)]

\* !!v for a string | null
TruthyString(v) == v # Null /\ v[1] # ""

\* !!v for a number | null
TruthyNumber(v) ==
  v # Null /\ ~ v[1].nan /\ (v[1].inf \/ v[1].n.hi # 0 \/ v[1].n.lo # 0)

\* a || b
OrElse(a, b, truthy) == IF truthy THEN a ELSE b

\* !!v for a string | null held as the sequence of its UTF-16 code units
TruthyChars(v) == v # Null /\ v[1] # << >>

\* the digits '0' to '9' are the code units 48 to 57
IsDigit(c) == 48 <= c /\ c <= 57

DigitValue(c) == c - 48

\* StrWhiteSpaceChar, which parseInt skips: the white space U+0009 (tab),
\* U+000B, U+000C (form feed), U+FEFF and the space separators U+0020,
\* U+00A0, U+1680, U+2000 to U+200A, U+202F, U+205F, U+3000, and the line
\* terminators U+000A, U+000D, U+2028, U+2029
WhiteSpace ==
  { 9, 11, 12, 65279, 32, 160, 5760, 8239, 8287, 12288 }
    \cup 8192..8202
    \cup { 10, 13, 8232, 8233 }

\* str without its leading white space
TrimStart(str) ==
  The({ SubSeq(str, first, Len(str))
      : first \in { i \in 1..Len(str) + 1
                    : /\ \A j \in 1..i - 1 : str[j] \in WhiteSpace
                      /\ i <= Len(str) => str[i] \notin WhiteSpace } })

\* the length of the longest prefix of str made of digits
DigitPrefix(str) ==
  The({ n \in 0..Len(str)
        : /\ \A j \in 1..n : IsDigit(str[j])
          /\ n < Len(str) => ~ IsDigit(str[n + 1]) })

\* A natural number of any size is the sequence of its digits to the base
\* Digit, the lowest first and the highest not 0.  The recursions over the
\* digits run in blocks of BlockSize steps, which bounds their depth.
BlockSize == 2 ^ 4

\* the digits of factor * big + carry for the digits from..to of big, put
\* after out, and the carry into the digit to + 1
RECURSIVE TimesPlusBlock(_, _, _, _, _, _)
TimesPlusBlock(big, from, to, factor, carry, out) ==
  IF from > to THEN [digits |-> out, carry |-> carry]
  ELSE The({ TimesPlusBlock(big, from + 1, to, factor, sum \div Digit,
                            Append(out, sum % Digit))
           : sum \in { factor * big[from] + carry } })

RECURSIVE TimesPlusFrom(_, _, _, _, _)
TimesPlusFrom(big, from, factor, carry, out) ==
  IF from > Len(big)
  THEN (IF carry = 0 THEN out
        ELSE IF carry < Digit THEN Append(out, carry)
        ELSE out \o << carry % Digit, carry \div Digit >>)
  ELSE The({ TimesPlusFrom(big, from + BlockSize, factor, block.carry,
                           block.digits)
           : block \in { TimesPlusBlock(big, from,
                                        Min(from + BlockSize - 1, Len(big)),
                                        factor, carry, out) } })

\* factor * big + carry, 0 <= carry < factor <= 10^5
TimesPlus(big, factor, carry) == TimesPlusFrom(big, 1, factor, carry, << >>)

\* the number written by the decimal digits str[from..to], at most five
RECURSIVE ChunkValue(_, _, _)
ChunkValue(str, from, to) ==
  IF from > to THEN 0
  ELSE 10 * ChunkValue(str, from, to - 1) + DigitValue(str[to])

\* the number written by the digits str[from..to], after those that gave
\* acc, read five digits at a time
RECURSIVE DigitsBlock(_, _, _, _)
DigitsBlock(str, from, to, acc) ==
  IF from > to THEN acc
  ELSE The({ DigitsBlock(str, last + 1, to, next)
           : last \in { Min(from + 4, to) },
             next \in { TimesPlus(acc, 10 ^ (Min(from + 4, to) - from + 1),
                                  ChunkValue(str, from,
                                             Min(from + 4, to))) } })

\* the number written by the digits str[from..n], after those that gave
\* acc; a number of more than MaxDigits digits is beyond the largest double
\* whatever follows, and the rest is not read
MaxDigits == 1024 \div 14 + 2

RECURSIVE DigitsValue(_, _, _, _)
DigitsValue(str, from, n, acc) ==
  IF from > n \/ Len(acc) > MaxDigits THEN acc
  ELSE The({ DigitsValue(str, last + 1, n, next)
           : last \in { Min(from + 5 * BlockSize - 1, n) },
             next \in { DigitsBlock(str, from,
                                    Min(from + 5 * BlockSize - 1, n),
                                    acc) } })

\* the Number value of the mathematical integer big, negated when neg: the
\* nearest double, ties to even, and Infinity beyond the largest double
NumberOfDigits(neg, big) ==
  IF Len(big) <= 4
  THEN The({ [nan |-> FALSE, inf |-> FALSE,
              n |-> IF hi = 0 /\ lo = 0 THEN Double(neg, 0, 0, 0)
                    ELSE NormalizeLeft(neg, 0, hi, lo)]
           : hi \in { (IF Len(big) > 3 THEN big[4] * Digit ELSE 0)
                        + (IF Len(big) > 2 THEN big[3] ELSE 0) },
             lo \in { (IF Len(big) > 1 THEN big[2] * Digit ELSE 0)
                        + (IF Len(big) > 0 THEN big[1] ELSE 0) } })
  ELSE The({ The({ IF rounded.exp > 968 THEN Infinity(neg)
                   ELSE [nan |-> FALSE, inf |-> FALSE, n |-> rounded]
                 : rounded \in
                     { RoundNearestEven(
                         neg, 14 * (len - 5) + bits,
                         top * (2 ^ (14 - bits))
                           + middle \div (2 ^ (14 + bits)),
                         Sticky((middle % (2 ^ (14 + bits)))
                                    * (2 ^ (14 - bits))
                                  + low \div (2 ^ bits),
                                \/ low % (2 ^ bits) # 0
                                \/ \E i \in 1..len - 5 : big[i] # 0)) } })
           : len \in { Len(big) },
             bits \in { 28 - LeadingZeros(big[Len(big)]) },
             top \in { big[Len(big)] * Digit + big[Len(big) - 1] },
             middle \in { big[Len(big) - 2] * Digit + big[Len(big) - 3] },
             low \in { big[Len(big) - 4] } })

\* parseInt(str, 10) for a string str held as the sequence of its UTF-16
\* code units: leading white space is skipped, a sign ('+' is 43, '-' is 45)
\* is taken, then the longest run of digits is read and what follows it is ignored; NaN when
\* there is no digit, -0 for '-0'
parseInt(str) ==
  LET trimmed == TrimStart(str)
      signed == trimmed # << >> /\ Head(trimmed) \in { 43, 45 }
      body == IF signed THEN Tail(trimmed) ELSE trimmed
      n == DigitPrefix(body)
  IN  IF n = 0 THEN NaN
      ELSE NumberOfDigits(signed /\ Head(trimmed) = 45,
                          DigitsValue(body, 1, n, << >>))

\* the part of the store that the actions set
QuizState(f, step, complete) ==
  [filters |-> f, currentStep |-> step, isComplete |-> complete]

initialState ==
  QuizState([location |-> Null, category |-> Null, month |-> Null],
            1, FALSE)

canAccessStep(f, step) ==
  CASE step = 1 -> TRUE
    [] step = 2 -> TruthyString(f.location)
    [] step = 3 -> TruthyString(f.location) /\ TruthyString(f.category)
    [] step = 4 -> /\ TruthyString(f.location)
                   /\ TruthyString(f.category)
                   /\ TruthyNumber(f.month)
    [] OTHER -> FALSE

\* getNextStep that looks at the category before the location
getNextStepCategoryFirst(f) ==
  IF ~ TruthyString(f.category) THEN Some(2)
  ELSE IF ~ TruthyString(f.location) THEN Some(1)
  ELSE IF ~ TruthyNumber(f.month) THEN Some(3)
  ELSE Null

getNextStep(f) ==
  IF ~ TruthyString(f.location) THEN Some(1)
  ELSE IF ~ TruthyString(f.category) THEN Some(2)
  ELSE IF ~ TruthyNumber(f.month) THEN Some(3)
  ELSE Null

\* nextStep || 1
getIncompleteStep(f) ==
  The({ IF nextStep # Null /\ nextStep[1] # 0
        THEN nextStep[1] ELSE 1
      : nextStep \in { getNextStep(f) } })

\* the path `/quiz/step${redirectStep}`
StepPath(step) == << "/quiz/step", step >>

checkStepAccess(f, requestedStep) ==
  IF canAccessStep(f, requestedStep)
  THEN [canAccess |-> TRUE, redirectTo |-> Null]
  ELSE [canAccess |-> FALSE, redirectTo |-> StepPath(getIncompleteStep(f))]

setLocation(s, locationId) ==
  QuizState([s.filters EXCEPT !.location = Some(locationId)],
            2, s.isComplete)

setCategory(s, categoryId) ==
  QuizState([s.filters EXCEPT !.category = Some(categoryId)],
            3, s.isComplete)

setMonth(s, monthIndex) ==
  QuizState([s.filters EXCEPT !.month = Some(monthIndex)],
            s.currentStep, TRUE)

\* goToStep that does not ask canAccessStep
goToStepUnguarded(s, step) ==
  QuizState(s.filters, step,
            step = 4 \/ (step = 3 /\ s.filters.month # Null))

goToStep(s, step) ==
  IF canAccessStep(s.filters, step)
  THEN QuizState(s.filters, step,
                 step = 4 \/ (step = 3 /\ s.filters.month # Null))
  ELSE s

reset(s) == initialState

\* syncFromURL for the search parameters location, category, type, month,
\* each Null when the URL does not have it; the month parameter is parsed
\* and so is held as the sequence of its characters
syncFromURL(s, params) ==
  LET location == params.location
      category == OrElse(params.category, params.type,
                         TruthyString(params.category))
      monthParam == params.month
      month == IF TruthyChars(monthParam)
               THEN Some(parseInt(monthParam[1])) ELSE Null
  IN  QuizState(
        [location |-> OrElse(location, s.filters.location,
                             TruthyString(location)),
         category |-> OrElse(category, s.filters.category,
                             TruthyString(category)),
         month |-> OrElse(month, s.filters.month, TruthyNumber(month))],
        IF ~ TruthyString(location) THEN 1
        ELSE IF ~ TruthyString(category) THEN 2
        ELSE IF ~ TruthyNumber(month) THEN 3
        ELSE 4,
        /\ TruthyString(location)
        /\ TruthyString(category)
        /\ TruthyNumber(month))

\* step numbers handed to goToStep and checkStepAccess run from 0 to this
MaxStepArg == 5

StepArgs == 0..MaxStepArg

LocationIds == { "", "wien" }

CategoryIds == { "", "musik" }

MonthIndexes == { Number(0), Number(5) }

\* the month parameter of the URL: '', '0', '7', ' 7', form feed and '7',
\* no-break space and '12', '12', '-3', '5x', 'abc', '99999999999'
MonthParams ==
  { << >>, << 48 >>, << 55 >>, << 32, 55 >>, << 12, 55 >>,
    << 160, 49, 50 >>, << 49, 50 >>, << 45, 51 >>, << 53, 120 >>,
    << 97, 98, 99 >>, << 57, 57, 57, 57, 57, 57, 57, 57, 57, 57, 57 >> }

URLParams ==
  [location : { Null, Some(""), Some("graz") },
   category : { Null, Some("theater") },
   type : { Null, Some("kunst") },
   month : { Null } \cup { Some(str) : str \in MonthParams }]

\* the store as the variables hold it
Store == QuizState(filters, currentStep, isComplete)

\* the store takes the state s after the call name(step)
StoreBecomes(s, name, step) ==
  /\ filters' = s.filters
  /\ currentStep' = s.currentStep
  /\ isComplete' = s.isComplete
  /\ quizCall' = [name |-> name, step |-> step]
  /\ UNCHANGED stepAccess
  /\ UNCHANGED << layoutVars, selectVars, sizeVars, kernelVars,
                  componentVars, debounceVars, validations, searchVars,
                  simVars >>

\* partialize of the persist options: the part of the state that is
\* written to localStorage
partialize(s) ==
  [filters |-> s.filters, currentStep |-> s.currentStep,
   isComplete |-> s.isComplete]

\* JSON.parse(JSON.stringify(v)) for a number | null: NaN, Infinity and
\* -Infinity are written as null, -0 as 0
JSONNumber(v) ==
  IF v = Null THEN v
  ELSE IF v[1].nan \/ v[1].inf THEN Null
  ELSE IF v[1].n.hi = 0 /\ v[1].n.lo = 0 THEN Some(Number(0))
  ELSE v

\* the entry 'quiz-store' of localStorage as it is read back after persist
\* wrote the state s
persisted(s) ==
  The({ [p EXCEPT !.filters.month = JSONNumber(@)]
      : p \in { partialize(s) } })

\* the states one call on the store in state s leads to
AfterOneCall(s) ==
  { setLocation(s, locationId) : locationId \in LocationIds }
    \cup { setCategory(s, categoryId) : categoryId \in CategoryIds }
    \cup { setMonth(s, monthIndex) : monthIndex \in MonthIndexes }
    \cup { goToStep(s, step) : step \in StepArgs }
    \cup { reset(s) }
    \cup { syncFromURL(s, params) : params \in URLParams }

\* the states that calls on the store lead to from the states seen, of
\* which those in last were found last
RECURSIVE AfterCalls(_, _)
AfterCalls(seen, last) ==
  IF last = { } THEN seen
  ELSE The({ AfterCalls(seen \cup new, new)
           : new \in { UNION { AfterOneCall(s) : s \in last } \ seen } })

\* what localStorage holds under 'quiz-store' when the store is created:
\* nothing (Null), or what persist wrote during earlier visits, the first
\* of which found nothing stored and so began in the state first
StoredStates(first) ==
  { Null }
    \cup { Some(persisted(s)) : s \in AfterCalls({ first }, { first }) }

\* the store as create and the hydration of persist leave it: the stored
\* entry is spread over initialState
rehydrate(stored) ==
  IF stored = Null THEN initialState
  ELSE QuizState(stored[1].filters, stored[1].currentStep,
                 stored[1].isComplete)

\* the store is created on a page load; persist reads localStorage, which
\* is synchronous, while create runs
InitQuiz ==
  /\ \E stored \in StoredStates(initialState) :
       /\ filters = rehydrate(stored).filters
       /\ currentStep = rehydrate(stored).currentStep
       /\ isComplete = rehydrate(stored).isComplete
  /\ quizCall = [name |-> "none", step |-> 0]
  /\ stepAccess = [canAccess |-> TRUE, redirectTo |-> << >>]
  /\ LayoutIdle
  /\ SearchIdle
  /\ SimIdle
  /\ SelectIdle
  /\ SizesIdle
  /\ KernelIdle
  /\ ComponentIdle
  /\ DebounceIdle
  /\ validations = << >>

SetLocation ==
  \E locationId \in LocationIds :
    StoreBecomes(setLocation(Store, locationId), "setLocation", 0)

SetCategory ==
  \E categoryId \in CategoryIds :
    StoreBecomes(setCategory(Store, categoryId), "setCategory", 0)

SetMonth ==
  \E monthIndex \in MonthIndexes :
    StoreBecomes(setMonth(Store, monthIndex), "setMonth", 0)

GoToStep ==
  \E step \in StepArgs : StoreBecomes(goToStep(Store, step), "goToStep", step)

Reset == StoreBecomes(reset(Store), "reset", 0)

SyncFromURL ==
  \E params \in URLParams :
    StoreBecomes(syncFromURL(Store, params), "syncFromURL", 0)

\* the route guard asks for requestedStep; the store is only read
CheckStepAccess ==
  \E requestedStep \in StepArgs :
    /\ stepAccess' = checkStepAccess(filters, requestedStep)
    /\ quizCall' = [name |-> "checkStepAccess", step |-> requestedStep]
    /\ UNCHANGED << filters, currentStep, isComplete >>
    /\ UNCHANGED << layoutVars, selectVars, sizeVars, kernelVars,
                    componentVars, debounceVars, validations, searchVars,
                    simVars >>

NextQuiz ==
  \/ SetLocation
  \/ SetCategory
  \/ SetMonth
  \/ GoToStep
  \/ Reset
  \/ SyncFromURL
  \/ CheckStepAccess

SpecQuiz == InitQuiz /\ [][NextQuiz]_vars

\* the first visit: nothing is stored, the store starts in initialState
InitQuizFresh == InitQuiz /\ Store = initialState

SpecQuizFresh == InitQuizFresh /\ [][NextQuiz]_vars

----------------------------------------------------------------------------
(* Vocabulary of the properties, stated without the operators above *)

\* the distance of x1 and x2, rounded to a double, is at least d, or more
\* than d when strict
FarApart(x1, x2, d, strict) ==
  IF strict
  THEN DoubleLess(d, DoubleAbs(DoubleSub(x1, x2)))
  ELSE ~ DoubleLess(DoubleAbs(DoubleSub(x1, x2)), d)

\* half the widths, or heights, of a and b plus spacing
ClearanceX(a, b, spacing) ==
  DoubleAdd(Half(DoubleAdd(a.width, b.width)), spacing)

ClearanceY(a, b, spacing) ==
  DoubleAdd(Half(DoubleAdd(a.height, b.height)), spacing)

\* the boxes of a and b are spacing apart along x or along y, or more than
\* that when strict
ApartBy(a, b, spacing, strict) ==
  \/ FarApart(a.x, b.x, ClearanceX(a, b, spacing), strict)
  \/ FarApart(a.y, b.y, ClearanceY(a, b, spacing), strict)

\* the boxes of a and b are at least spacing apart, along x or along y
Apart(a, b, spacing) == ApartBy(a, b, spacing, FALSE)

\* the double x lies in [low, high]
Within(x, low, high) == ~ DoubleLess(x, low) /\ ~ DoubleLess(high, x)

\* the box of a placed item lies inside [0, width] x [0, height]
InsideContainer(p, cont) ==
  /\ Within(p.x, Half(p.width), DoubleSub(cont.width, Half(p.width)))
  /\ Within(p.y, Half(p.height), DoubleSub(cont.height, Half(p.height)))

\* ids of the placed items
PlacedIds == { placed[i].id : i \in 1..Len(placed) }

\* an item too wide or too high for the container
Oversized(item) ==
  \/ DoubleLess(container.width, item.width)
  \/ DoubleLess(container.height, item.height)

\* the index of the item that is processed first: the most important one,
\* the earliest of them in the input on a tie
TopIndex ==
  CHOOSE i \in 1..Len(items) :
    \A j \in 1..Len(items) :
      \/ items[i].importance > items[j].importance
      \/ items[i].importance = items[j].importance /\ i <= j

\* two items whose combined half-widths plus minSpacing exceed the width
TooWideTogether ==
  /\ Len(items) = 2
  /\ DoubleLess(container.width, ClearanceX(items[1], items[2], minSpacing))

\* two items whose combined half-heights plus minSpacing exceed the height
TooHighTogether ==
  /\ Len(items) = 2
  /\ DoubleLess(container.height, ClearanceY(items[1], items[2], minSpacing))

----------------------------------------------------------------------------
(* Properties *)

\* C1 (refuted by the code): every two distinct items of a spiralLayout
\* result are at least minSpacing apart, and validateNoOverlaps with the
\* same minSpacing reports no overlap on the result.
C1_SpiralNoOverlap ==
  algorithm = "spiral" =>
    /\ \A i, j \in 1..Len(placed) :
         i < j => Apart(placed[i], placed[j], minSpacing)
    /\ ~ validateNoOverlaps(placed, minSpacing).hasOverlaps

\* C2: every item returned by spiralLayout and by forceDirectedLayout has
\* its box inside the container (stated for the roomy container, in which
\* every item list of the model can be laid out inside the bounds).
C2_AllInsideContainer ==
  (algorithm \in { "spiral", "force-directed" }
     /\ container = ContainerBounds(800, 500))
    => \A i \in 1..Len(placed) : InsideContainer(placed[i], container)

\* C3: hybridLayout returns as many items as it was given.
C3_HybridKeepsAll ==
  algorithm = "hybrid" => Len(placed) = Len(items)

\* C3 witness: hybridLayout returned every item of a list from which
\* spiralLayout drops one, the case in which it falls back.
C3_Witness ==
  /\ algorithm = "hybrid"
  /\ Len(placed) = Len(items)
  /\ Len(spiralLayout(items, container, minSpacing, mathLibrary)) < Len(items)

\* C4: forceDirectedLayout returns one placed item per input item, with the
\* same ids in the same order and unchanged width and height, for every
\* maxIterations and whether or not the simulation converged.
C4_ForceKeepsAll ==
  algorithm = "force-directed" =>
    /\ Len(placed) = Len(items)
    /\ \A i \in 1..Len(items) :
         /\ placed[i].id = items[i].id
         /\ placed[i].width = items[i].width
         /\ placed[i].height = items[i].height

\* C4 witness: forceDirectedLayout was called with maxIterations = 0 on a
\* full list, never converged, and returned every item although one of them
\* lies outside the container.
C4_Witness ==
  /\ algorithm = "force-directed"
  /\ Len(items) = MaxItems
  /\ maxIterations = 0
  /\ iterations = 0
  /\ randomSeed = 0
  /\ Len(placed) = MaxItems
  /\ \E i \in 1..Len(placed) : ~ InsideContainer(placed[i], container)

\* C5: selectOptimalAlgorithm follows the ordered policy: itemCount <= 10
\* gives spiral; otherwise density < 0.001 gives spiral; otherwise
\* itemCount > 50 or density > 0.01 gives force-directed; otherwise hybrid,
\* with density = itemCount / containerArea.
C5_SelectPolicy ==
  selected # "none" =>
    selected =
      IF itemCount <= 10 THEN "spiral"
      ELSE IF containerArea > 0 /\ 1000 * itemCount < containerArea
           THEN "spiral"
      ELSE IF \/ itemCount > 50
              \/ containerArea = 0
              \/ 100 * itemCount > containerArea
           THEN "force-directed"
      ELSE "hybrid"

\* C5 witness: the selector reached its last rule and chose hybrid.
C5_Witness ==
  selected = "hybrid" /\ itemCount > 10 /\ itemCount <= 50

\* C6 as claimed: 60 items in a 300 x 300 container select force-directed.
C6_SixtyItemsForce ==
  (selected # "none" /\ itemCount = 60 /\ containerArea = 300 * 300)
    => selected = "force-directed"

\* C6 as amended: 60 items in a 300 x 300 container select spiral, the
\* density 60 / 90000 being below 0.001.
C6_SixtyItemsSpiral ==
  (selected # "none" /\ itemCount = 60 /\ containerArea = 300 * 300)
    => selected = "spiral"

\* C6 witness: the selector was called with 60 items and area 90000.
C6_Witness ==
  selected # "none" /\ itemCount = 60 /\ containerArea = 300 * 300

\* C7 as claimed: for a non-empty input the most important item is in the
\* spiralLayout result at the container centre.
C7_TopAtCentre ==
  (algorithm = "spiral" /\ Len(items) > 0) =>
    \E i \in 1..Len(placed) :
      /\ placed[i].id = items[TopIndex].id
      /\ placed[i].x = container.center.x
      /\ placed[i].y = container.center.y

\* C7 as amended: when the most important item is not too wide or too high
\* for the container, it is the first item of the spiralLayout result and
\* lies at the container centre; a one-item input that fits yields a
\* one-item result.
C7_TopAtCentreIfFits ==
  (algorithm = "spiral" /\ Len(items) > 0 /\ ~ Oversized(items[TopIndex])) =>
    /\ Len(placed) >= 1
    /\ placed[1].id = items[TopIndex].id
    /\ placed[1].x = container.center.x
    /\ placed[1].y = container.center.y
    /\ Len(items) = 1 => Len(placed) = 1

\* C7 witness: the most important item is neither the first nor the only
\* one of the input and was placed at the centre although others compete.
C7_Witness ==
  /\ algorithm = "spiral"
  /\ Len(items) = 3
  /\ TopIndex = 3
  /\ ~ Oversized(items[TopIndex])
  /\ Len(placed) >= 2
  /\ placed[1].id = 3

\* C8: an item wider or higher than the container is absent from the
\* spiralLayout result, the other items are laid out as if it had not been
\* in the input, and a zero-area container yields an empty result.
C8_OversizedDropped ==
  algorithm = "spiral" =>
    /\ \A i \in 1..Len(items) :
         Oversized(items[i]) => items[i].id \notin PlacedIds
    /\ placed = spiralLayout(SelectSeq(items, LAMBDA it : ~ Oversized(it)),
                             container, minSpacing, mathLibrary)
    /\ (container.width = DoubleZero \/ container.height = DoubleZero)
         => placed = << >>

\* C8 witness: the most important item was oversized and dropped, and a
\* less important item behind it was placed.
C8_Witness ==
  /\ algorithm = "spiral"
  /\ Len(items) >= 2
  /\ Oversized(items[TopIndex])
  /\ Len(placed) >= 1

\* C9 as claimed: of two items whose combined half-widths plus minSpacing
\* exceed the container width, spiralLayout returns exactly one.
C9_SecondDropped ==
  (algorithm = "spiral" /\ TooWideTogether) => Len(placed) = 1

\* C9 as amended: of two items whose combined half-widths plus minSpacing
\* exceed the container width and whose combined half-heights plus
\* minSpacing exceed the container height, spiralLayout returns at most
\* one; when the more important one fits the container it returns exactly
\* that one.
C9_SecondDroppedIfNoRoom ==
  (algorithm = "spiral" /\ TooWideTogether /\ TooHighTogether) =>
    /\ Len(placed) <= 1
    /\ ~ Oversized(items[TopIndex]) =>
         Len(placed) = 1 /\ placed[1].id = items[TopIndex].id

\* C9 witness: two items that together are too wide and too high, the
\* first of which fits, gave a result of length 1.
C9_Witness ==
  /\ algorithm = "spiral"
  /\ TooWideTogether
  /\ TooHighTogether
  /\ ~ Oversized(items[TopIndex])
  /\ Len(placed) = 1

\* C10: every item calculateFontSizes returns is at least minTapTarget wide
\* and high.
C10_MinTapTarget ==
  \A i \in 1..Len(sized) :
    /\ ~ DoubleLess(sized[i].width, minTapTarget)
    /\ ~ DoubleLess(sized[i].height, minTapTarget)

\* C10 witness: one call returned an item with empty text, raised to the
\* tap target, next to an item whose text is wider than the tap target.
C10_Witness ==
  /\ \E i \in 1..Len(sized) :
       sized[i].text = "" /\ sized[i].width = minTapTarget
  /\ \E i \in 1..Len(sized) : DoubleLess(minTapTarget, sized[i].width)
  /\ \E i \in 1..Len(sized) : DoubleLess(minTapTarget, sized[i].height)

\* all items handed to calculateFontSizes share one value
AllSameValue ==
  \A i, j \in 1..Len(rawItems) : rawItems[i].value = rawItems[j].value

\* C11: when all items share the same value, calculateFontSizes gives
\* every item the font size midway between fontSizeRange.min and
\* fontSizeRange.max.
C11_SameValueMidRange ==
  (sized # << >> /\ AllSameValue) =>
    \A i \in 1..Len(sized) :
      Twice(sized[i].fontSize)
        = DoubleAdd(fontSizeRange.min, fontSizeRange.max)

\* C12: hasCollision(A, B, minSpacing) equals hasCollision(B, A,
\* minSpacing) for all boxes A and B and every minSpacing >= 0.
C12_CollisionSymmetric ==
  (collisionAB # "none" /\ collisionBA # "none") => collisionAB = collisionBA

\* no two items of the list collide: every pair is more than spacing
\* apart along x or along y
AllClear(list, spacing) ==
  \A i, j \in 1..Len(list) :
    i < j => ApartBy(list[i], list[j], spacing, TRUE)

InputOf(p) == items[CHOOSE i \in 1..Len(items) : items[i].id = p.id]

\* C14: every item of a spiralLayout result is an input item with id,
\* text, fontSize, importance, width and height unchanged plus a position;
\* no input item appears twice; an item the spiral could not place has no
\* entry at all, so the result is shorter than the input exactly when an
\* item was dropped.
C14_SpiralSubCollection ==
  algorithm = "spiral" =>
    /\ \A k \in 1..Len(placed) :
         /\ \E i \in 1..Len(items) : items[i].id = placed[k].id
         /\ DOMAIN placed[k]
              = { "id", "text", "fontSize", "importance", "width", "height",
                  "x", "y" }
         /\ \A f \in { "id", "text", "fontSize", "importance", "width",
                       "height" } : placed[k][f] = InputOf(placed[k])[f]
    /\ \A k, l \in 1..Len(placed) : placed[k].id = placed[l].id => k = l
    /\ Len(placed) <= Len(items)
    /\ Len(placed) < Len(items)
         <=> \E i \in 1..Len(items) : items[i].id \notin PlacedIds

\* C14 witness: spiralLayout placed two items of three and dropped the
\* third.
C14_Witness ==
  /\ algorithm = "spiral"
  /\ Len(items) = 3
  /\ Len(placed) = 2
  /\ \E i \in 1..Len(items) : items[i].id \notin PlacedIds

----------------------------------------------------------------------------
\* C15: when window.analytics.track throws while a layout pass is measured,
\* the pass does not fail: the component stores what the layout function
\* returned and does not take the message of the thrown error as its
\* layoutError.
C15_AnalyticsErrorHarmless ==
  (algorithm # "none" /\ analytics \in { "throws", "throwsEmpty" }) =>
    (placedItemsState = placed /\ layoutError \notin { "thrown", "" })

\* the call number j is the last of its burst: no call follows it before
\* its delay has elapsed
LastOfBurst(j) ==
  j = Len(callTimes) \/ callTimes[j + 1] - callTimes[j] >= DebounceDelay

\* the runs of layoutFunction made when j calls had been made
RunsAfterCall(j) == { i \in DOMAIN runTimes : runTimes[i].calls = j }

\* C16 as claimed: the debounced function keeps at most one timer pending;
\* layoutFunction runs only when the delay has passed since the last call
\* made, never for a call that was followed by another within the delay,
\* and exactly once for every burst: once no timer is pending, the last
\* call of each burst has one run.
C16_DebouncedOncePerBurst ==
  /\ Cardinality(timers) <= 1
  /\ \A i \in DOMAIN runTimes :
       /\ runTimes[i].calls >= 1
       /\ runTimes[i].at >= callTimes[runTimes[i].calls] + DebounceDelay
  /\ \A j \in DOMAIN callTimes :
       IF ~ LastOfBurst(j) THEN RunsAfterCall(j) = { }
       ELSE IF timers = { }
            THEN Cardinality(RunsAfterCall(j)) = 1
            ELSE Cardinality(RunsAfterCall(j)) <= 1

\* the call number j was followed by another one while its timer was
\* still pending: the timer had not fired when the next call cleared it
ClearedByNextCall(j) == j < Len(callTimes) /\ RunsAfterCall(j) = { }

\* C16 as amended: the debounced function keeps at most one timer pending;
\* layoutFunction runs only when the delay has passed since the last call
\* made, never for a call followed by another within the delay and at most
\* once for any call; once no timer is pending the last call made has
\* exactly one run, and an earlier burst is without a run only when the
\* next call came before its timer, due but late, had fired.
C16_DebouncedAtMostOncePerBurst ==
  /\ Cardinality(timers) <= 1
  /\ \A i \in DOMAIN runTimes :
       /\ runTimes[i].calls >= 1
       /\ runTimes[i].at >= callTimes[runTimes[i].calls] + DebounceDelay
  /\ \A j \in DOMAIN callTimes :
       /\ Cardinality(RunsAfterCall(j)) <= 1
       /\ ~ LastOfBurst(j) => RunsAfterCall(j) = { }
       /\ (timers = { } /\ j = Len(callTimes)) =>
            Cardinality(RunsAfterCall(j)) = 1
       /\ (j < Len(callTimes) /\ RunsAfterCall(j) # { }) =>
            \A i \in RunsAfterCall(j) : runTimes[i].at <= callTimes[j + 1]

\* a burst of two calls within the delay was answered by one run, and a
\* third call, made the delay after it while the timer of the second
\* burst was due but had not fired, left that burst without a run
C16_Witness ==
  /\ Len(callTimes) = 3
  /\ callTimes[2] - callTimes[1] < DebounceDelay
  /\ callTimes[2] - callTimes[1] > 0
  /\ callTimes[3] - callTimes[2] >= DebounceDelay
  /\ timers = { }
  /\ Len(runTimes) = 1
  /\ runTimes[1].calls = 3
  /\ ClearedByNextCall(2)

\* the last layout pass was computed from the size the container has now
LaidOutAtCurrentSize ==
  container = ContainerBounds(containerRect[1], containerRect[2])

\* C17: with a non-empty item list, unless the container keeps being
\* resized for ever, the component comes to rest with the layout complete
\* and computed from the container's final size: whenever it shows the
\* cloud (layoutError null or the empty message), isLayoutComplete is true
\* and the pass used the current size.
C17_ResizeLeadsToLayout ==
  Len(sized) > 0 =>
    \/ []<>(resizeTimers > 0)
    \/ <>[](layoutError \in { "null", "" } =>
              (isLayoutComplete /\ LaidOutAtCurrentSize))

\* C18: for an empty item list each of spiralLayout, forceDirectedLayout
\* and hybridLayout returns an empty list, and validateNoOverlaps on an
\* empty list reports hasOverlaps = false with no overlapping pair.
C18_EmptyInEmptyOut ==
  /\ (Len(items) = 0 /\ algorithm # "none") => placed = << >>
  /\ validateNoOverlaps(<< >>, minSpacing) =
       [hasOverlaps |-> FALSE, overlapping |-> << >>]

\* hybridLayout was called with an empty list, and with it spiralLayout and
\* validateNoOverlaps on the empty result
C18_Witness ==
  /\ Len(items) = 0
  /\ algorithm = "hybrid"
  /\ Len(placed) = 0

\* the pairs i < j of a list whose boxes collide under hasCollision, first
\* box first
CollidingPairs(list, spacing) ==
  { p \in (1..Len(list)) \X (1..Len(list)) :
      /\ p[1] < p[2]
      /\ hasCollision(ItemBounds(list[p[1]]), ItemBounds(list[p[2]]),
                      spacing) }

\* the entries of a report that name the pair p of a list
EntriesFor(report, list, p) ==
  { k \in DOMAIN report : report[k] = << list[p[1]].id, list[p[2]].id >> }

\* C19: validateNoOverlaps reports hasOverlaps exactly when some pair of
\* distinct positions collides under hasCollision with minSpacing, its
\* report has one entry for each colliding pair and no other entry, the
\* list is the same after every call, and every call on the list returns
\* the same result.
C19_ValidateExhaustive ==
  \A k \in DOMAIN validations :
    LET result == validations[k].result
        colliding == CollidingPairs(placed, minSpacing)
    IN  /\ result.hasOverlaps <=> colliding # { }
        /\ Len(result.overlapping) = Cardinality(colliding)
        /\ \A p \in colliding :
             Cardinality(EntriesFor(result.overlapping, placed, p)) = 1
        /\ validations[k].list = placed
        /\ result = validations[1].result

\* two calls were made on a list of three items of which two pairs collide
\* and one does not
C19_Witness ==
  /\ Len(placed) = 3
  /\ Len(validations) = 2
  /\ Cardinality(CollidingPairs(placed, minSpacing)) = 2
  /\ Len(validations[2].result.overlapping) = 2

\* the placed items are in non-increasing order of importance, and those
\* of equal importance in the order of the input (ids number the input)
InImportanceOrder(list) ==
  \A i, j \in DOMAIN list :
    i < j =>
      \/ list[i].importance > list[j].importance
      \/ /\ list[i].importance = list[j].importance
         /\ list[i].id < list[j].id

\* C20: what spiralLayout returns is in non-increasing order of importance
\* with equally important items in their input order, and no step changes
\* the caller's array items.
C20_ImportanceOrder ==
  /\ [](algorithm = "spiral" => InImportanceOrder(placed))
  /\ [][items' = items]_vars

\* spiralLayout placed three items whose input order was not sorted: the
\* second, more important item comes first, the two equally important ones
\* follow in input order
C20_Witness ==
  /\ algorithm = "spiral"
  /\ Len(items) = 3
  /\ items[1].importance < items[2].importance
  /\ items[1].importance = items[3].importance
  /\ Len(placed) = 3
  /\ << placed[1].id, placed[2].id, placed[3].id >> = << 2, 1, 3 >>

\* the search has returned
SearchReturned == searchState \in { "found", "null" }

\* C21: the spiral search ends for every item.  Each pass that moves on
\* makes the radius strictly larger, the loop body runs only below
\* maxRadius and at most LastStep + 1 times, a position is accepted only
\* at a radius below maxRadius, an item without a slot gets null, which is
\* what findNonCollidingPosition computes, and the search always returns.
C21_SearchTerminates ==
  /\ [][searchStep' # searchStep
          => DoubleLess(searchRadius, searchRadius')]_vars
  /\ [](searchStep <= LastStep + 1)
  /\ [](searchState = "found" =>
          /\ DoubleLess(searchRadius, maxRadius)
          /\ searchPosition.found)
  /\ [](searchState = "null" =>
          /\ ~ DoubleLess(searchRadius, maxRadius)
          /\ searchPosition = NoPosition)
  /\ [](SearchReturned =>
          searchPosition =
            findNonCollidingPosition(items[1], placed, container,
                                     minSpacing, mathLibrary))
  /\ <>SearchReturned

\* an item that fits nowhere went round the whole spiral and got null
C21_Witness ==
  /\ searchState = "null"
  /\ searchStep = LastStep + 1
  /\ DoubleLess(DoubleZero, container.width)

\* the magnitude of the double a in whole 2^-14 px, rounded, 30000 at most
Fine(a) ==
  LET t == a.exp + 42
  IN  IF a.hi = 0 \/ t < -28 THEN 0
      ELSE IF t > -13 THEN 30000
      ELSE Min(DivRound(a.hi, 2 ^ (-t)), 30000)

\* the speed of a force item in whole 2^-14 px, rounded down.  The speed
\* itself is less than 2 below it and, when Fine cuts neither vx nor vy,
\* less than 3 above it.
SpeedFloor(item) ==
  Isqrt(Fine(item.vx) * Fine(item.vx) + Fine(item.vy) * Fine(item.vy))

\* the sum of the elements of seq from the index from on
RECURSIVE SumFrom(_, _)
SumFrom(seq, from) ==
  IF from > Len(seq) THEN 0 ELSE seq[from] + SumFrom(seq, from + 1)

SpeedSum(forceItems) ==
  SumFrom([i \in 1..Len(forceItems) |-> SpeedFloor(forceItems[i])], 1)

\* the average speed of the force items may be below the convergence
\* threshold of 0.1 px (2^14 / 10 of the units of SpeedFloor)
SlowOnAverage(forceItems) ==
  (SpeedSum(forceItems) - 2 * Len(forceItems)) * ConvergenceThresholdInv
    < (2 ^ 14) * Len(forceItems)

\* the average speed may be at or above the threshold
FastOnAverage(forceItems) ==
  (SpeedSum(forceItems) + 3 * Len(forceItems)) * ConvergenceThresholdInv
    > (2 ^ 14) * Len(forceItems)

\* C22: forceDirectedLayout ends after at most maxIterations passes of its
\* loop.  Every pass counts one iteration; after a pass, converged tells
\* whether the average speed is below the threshold; once converged no
\* further pass runs; the loop is left either converged or with iteration
\* equal to maxIterations, overlaps or not; and the function always returns.
C22_ForceTerminates ==
  /\ [](simulation.iteration <= maxIterations)
  /\ [][simulation' # simulation /\ simPhase = "loop" =>
          /\ ~ simulation.converged
          /\ simulation.iteration < maxIterations
          /\ simulation'.iteration = simulation.iteration + 1]_vars
  /\ [](simulation.iteration > 0 =>
          IF simulation.converged THEN SlowOnAverage(simulation.forceItems)
          ELSE FastOnAverage(simulation.forceItems))
  /\ [](simPhase = "done" /\ Len(items) > 0 =>
          /\ simulation.converged \/ simulation.iteration = maxIterations
          /\ iterations = simulation.iteration
          /\ Len(placed) = Len(items))
  /\ <>(simPhase = "done")

\* the loop ran out of iterations without converging and returned items
\* that overlap
C22_Witness ==
  /\ simPhase = "done"
  /\ maxIterations = DefaultMaxIterations
  /\ simulation.iteration = maxIterations
  /\ ~ simulation.converged
  /\ ~ AllClear(placed, minSpacing)

\* the two force items of the pair and what lies between their centres, in
\* px: the centres, sizes and spacings of these pairs are whole numbers of
\* px
PairDx ==
  WholeNumber(simulation.forceItems[2].x) - WholeNumber(simulation.forceItems[1].x)

PairDy ==
  WholeNumber(simulation.forceItems[2].y) - WholeNumber(simulation.forceItems[1].y)

\* the sum of the half-widths and half-heights of the pair plus minSpacing
PairMinDistance ==
  (WholeNumber(simulation.forceItems[1].width)
     + WholeNumber(simulation.forceItems[2].width)) \div 2
  + (WholeNumber(simulation.forceItems[1].height)
       + WholeNumber(simulation.forceItems[2].height)) \div 2
  + WholeNumber(minSpacing)

\* the centres are less than PairMinDistance apart
PairTooClose ==
  PairDx * PairDx + PairDy * PairDy < PairMinDistance * PairMinDistance

\* the double a is n to the nearest 2^-14 px, 0 <= n < 2^27
NearlyWhole(a, n) ==
  /\ ~ DoubleLess(a, DoubleSub(DoubleOf(n), TimesPowerOfTwo(DoubleOne, -14)))
  /\ ~ DoubleLess(DoubleAdd(DoubleOf(n), TimesPowerOfTwo(DoubleOne, -14)), a)

\* the two forces are equal and opposite, not zero, and push the items
\* apart along the line between the centres
PushedApart ==
  /\ forces[1].fx = DoubleNeg(forces[2].fx)
  /\ forces[1].fy = DoubleNeg(forces[2].fy)
  /\ forces[2].fx # DoubleZero \/ forces[2].fy # DoubleZero
  /\ forces[2].fx = DoubleZero \/ forces[2].fx.neg = (PairDx < 0)
  /\ forces[2].fy = DoubleZero \/ forces[2].fy.neg = (PairDy < 0)
  /\ PairDy = 0 =>
       NearlyWhole(DoubleAbs(forces[2].fx),
                   RepulsionStrength * (PairMinDistance - Abs(PairDx)))

\* C23: a pair whose centres are closer than the sum of the half-widths
\* and half-heights plus minSpacing gets equal and opposite forces that
\* push it apart, of strength repulsionStrength times the overlap, also
\* when the two centres coincide.
C23_ClosePairsRepelled ==
  (forces # << >> /\ PairTooClose) => PushedApart

\* the same for the pairs whose centres do not coincide, and no force for
\* the pairs that are not too close
C23_DistinctCentresRepelled ==
  forces # << >> =>
    /\ (PairTooClose /\ (PairDx # 0 \/ PairDy # 0)) => PushedApart
    /\ (~ PairTooClose \/ (PairDx = 0 /\ PairDy = 0)) =>
         forces = << NoForce, NoForce >>

\* C24 (refuted by the code): with algorithm 'auto' every pass runs the
\* strategy that selectOptimalAlgorithm returns for the item count and the
\* container area of that pass
C24_AutoRunsOptimalAlgorithm ==
  (algorithmProp = "auto" /\ algorithm # "none")
    => algorithm = selectOptimalAlgorithm(
                     Len(items),
                     WholeNumber(container.width)
                       * WholeNumber(container.height))

\* C25 (refuted by the code): a resize event that arrives while a resize
\* timer is pending replaces that timer, so at most one resize timer is
\* pending at any time
C25_OneResizeTimerPending == resizeTimers <= 1

\* C26 (refuted by the code): a layoutError recorded by one pass is cleared
\* when new items start the next pass, so a 'Could only place k of n items'
\* that shows after the items changed was recorded by a pass over the new
\* items
C26_NewItemsClearError ==
  (itemChanges > 0 /\ Len(sized) > 0 /\ layoutError = "incomplete")
    => items = sized

\* the first step whose filter is still missing, when there is one
FirstMissingStep ==
  IF filters.location = << >> \/ filters.location[1] = "" THEN 1
  ELSE IF filters.category = << >> \/ filters.category[1] = "" THEN 2
  ELSE 3

NothingMissing ==
  /\ filters.location # << >> /\ filters.location[1] # ""
  /\ filters.category # << >> /\ filters.category[1] # ""
  /\ filters.month # << >> /\ ~ filters.month[1].nan
  /\ (filters.month[1].inf
        \/ filters.month[1].n.hi # 0 \/ filters.month[1].n.lo # 0)

\* the route guard has just refused the step it was asked for
StepRefused ==
  /\ quizCall.name = "checkStepAccess"
  /\ ~ canAccessStep(filters, quizCall.step)

\* C27 as stated (refuted): a refused step is redirected to the first step
\* whose filter is missing, step 3 when neither location nor category is
\* missing, and the target can be accessed
C27_RedirectToFirstMissing ==
  StepRefused =>
    /\ stepAccess.canAccess = FALSE
    /\ stepAccess.redirectTo = << "/quiz/step", FirstMissingStep >>
    /\ canAccessStep(filters, FirstMissingStep)

\* C27 (amended): a refused step is redirected to the first step whose
\* filter is missing, and to step 1 when no filter is missing; the target
\* can be accessed, so the guard accepts it
C27_RedirectToIncompleteStep ==
  StepRefused =>
    /\ stepAccess.canAccess = FALSE
    /\ stepAccess.redirectTo =
         << "/quiz/step", IF NothingMissing THEN 1 ELSE FirstMissingStep >>
    /\ canAccessStep(filters, stepAccess.redirectTo[2])
    /\ checkStepAccess(filters, stepAccess.redirectTo[2]).canAccess

\* a step is refused and redirected to step 3: only the month is missing
C27_Witness ==
  /\ StepRefused
  /\ stepAccess.redirectTo = << "/quiz/step", 3 >>

\* C28 (refuted by the code): isComplete = true implies that location,
\* category and month are all non-null
C28_CompleteHasAllFilters ==
  isComplete =>
    /\ filters.location # << >>
    /\ filters.category # << >>
    /\ filters.month # << >>

\* C29: a call goToStep(step) for a step that canAccessStep refuses leaves
\* filters, currentStep and isComplete as they were, and a call that
\* succeeds leaves the filters as they were
C29_GoToStepGuarded ==
  [][quizCall'.name = "goToStep" =>
       IF canAccessStep(filters, quizCall'.step)
       THEN filters' = filters
       ELSE /\ filters' = filters
            /\ currentStep' = currentStep
            /\ isComplete' = isComplete]_vars

\* goToStep(4) was refused on step 3, with location and category chosen
C29_Witness ==
  /\ quizCall = [name |-> "goToStep", step |-> 4]
  /\ ~ canAccessStep(filters, 4)
  /\ canAccessStep(filters, 3)
  /\ currentStep = 3

\* C30 (refuted by the code): currentStep is always 1, 2 or 3
C30_CurrentStepUpToThree == currentStep \in { 1, 2, 3 }

====
